---- MODULE Spec2Model ----
(***************************************************************************)
(* Model of the SCICON advisor (backend/advisor/scicon_advisor.py): the    *)
(* append-only event log, the state resolvers that replay it, the answer   *)
(* normalizers, the conversation step handlers and their dispatcher, the   *)
(* profile builder and the spare-parts database cache.                     *)
(*                                                                         *)
(* Text is modelled by TLA+ strings; Python's str.lower, str.strip, `in`   *)
(* and str.startswith are computed character by character.                 *)
(***************************************************************************)
EXTENDS Integers, Sequences, FiniteSets, TLC

VARIABLES log, cache, csv, rng, ret, obs, inflight

vars == <<log, cache, csv, rng, ret, obs, inflight>>

(***************************************************************************)
(* Python values                                                           *)
(***************************************************************************)

\* Python's None (a missing value); no answer or key of the model equals it.
Null == "<None>"

\* Accented letters are written unaccented ("affidabilita_tecnica"); the
\* keywords "si'" and "gia'" with an accent are left out of yes_keywords,
\* since no answer of the model contains an accented letter.

\* dict.get(k): the value stored under k, None when the key is absent.
Get(d, k) == IF k \in DOMAIN d THEN d[k] ELSE Null

\* `x or ""` for an optional string.
OrEmpty(x) == IF x = Null THEN "" ELSE x

\* `a or b` for optional strings: a unless it is None or empty.
Or(a, b) == IF a = Null \/ a = "" THEN b ELSE a

UpperChars == <<"A","B","C","D","E","F","G","H","I","J","K","L","M",
                "N","O","P","Q","R","S","T","U","V","W","X","Y","Z">>

LowerChars == <<"a","b","c","d","e","f","g","h","i","j","k","l","m",
                "n","o","p","q","r","s","t","u","v","w","x","y","z">>

\* the elements of a sequence
Range(s) == {s[i] : i \in 1..Len(s)}

LowerOf == [c \in Range(UpperChars) |->
              LowerChars[CHOOSE i \in 1..26 : UpperChars[i] = c]]

LowerChar(c) == IF c \in DOMAIN LowerOf THEN LowerOf[c] ELSE c

\* str.lower()
RECURSIVE Lower(_)
Lower(s) ==
    IF Len(s) = 0 THEN ""
    ELSE LowerChar(SubSeq(s, 1, 1)) \o Lower(SubSeq(s, 2, Len(s)))

IsSpace(c) == c = " "

RECURSIVE LStrip(_)
LStrip(s) ==
    IF Len(s) = 0 THEN ""
    ELSE IF IsSpace(SubSeq(s, 1, 1)) THEN LStrip(SubSeq(s, 2, Len(s)))
    ELSE s

RECURSIVE RStrip(_)
RStrip(s) ==
    IF Len(s) = 0 THEN ""
    ELSE IF IsSpace(SubSeq(s, Len(s), Len(s))) THEN RStrip(SubSeq(s, 1, Len(s) - 1))
    ELSE s

\* str.strip()
Strip(s) == RStrip(LStrip(s))

\* `p in s` for strings
Contains(s, p) ==
    \E i \in 0..(Len(s) - Len(p)) : SubSeq(s, i + 1, i + Len(p)) = p

\* s.startswith(p)
StartsWith(s, p) ==
    /\ Len(p) <= Len(s)
    /\ SubSeq(s, 1, Len(p)) = p

\* any(k in a for k in keywords)
AnyIn(keywords, a) == \E i \in 1..Len(keywords) : Contains(a, keywords[i])

\* [k for k in keys if k.lower().startswith(prefix)]; the keys of the
\* database carry no surrounding blanks, so k.strip().lower() is the same
RECURSIVE SelectKeys(_, _)
SelectKeys(s, prefix) ==
    IF Len(s) = 0 THEN <<>>
    ELSE IF StartsWith(Lower(Head(s)), prefix)
         THEN <<Head(s)>> \o SelectKeys(Tail(s), prefix)
         ELSE SelectKeys(Tail(s), prefix)

(***************************************************************************)
(* Intents and flows                                                       *)
(***************************************************************************)

ALLOWED_INTENTS ==
    <<"valutazione", "comparazione", "riduzione_rischio", "affidabilita_tecnica",
      "prescrizione_ottica", "budget", "upgrade_miglioramento", "info_lenti",
      "info_montatura", "post_vendita_supporto">>

Flows == {"sport_flow", "rx_flow", "compare_flow", "budget_flow", "info_flow",
          "support_flow"}

\* route_intent without info_montatura in the list of the info intents
route_intent_mut(intent_primary) ==
    IF intent_primary = "prescrizione_ottica" THEN "rx_flow"
    ELSE IF intent_primary = "comparazione" THEN "compare_flow"
    ELSE IF intent_primary = "budget" THEN "budget_flow"
    ELSE IF intent_primary \in {"info_lenti"} THEN "info_flow"
    ELSE IF intent_primary = "post_vendita_supporto" THEN "support_flow"
    ELSE "sport_flow"

route_intent(intent_primary) ==
    IF intent_primary = "prescrizione_ottica" THEN "rx_flow"
    ELSE IF intent_primary = "comparazione" THEN "compare_flow"
    ELSE IF intent_primary = "budget" THEN "budget_flow"
    ELSE IF intent_primary \in {"info_lenti", "info_montatura"} THEN "info_flow"
    ELSE IF intent_primary = "post_vendita_supporto" THEN "support_flow"
    ELSE IF intent_primary \in {"valutazione", "riduzione_rischio",
                                "affidabilita_tecnica", "upgrade_miglioramento"}
         THEN "sport_flow"
    ELSE "sport_flow"

(***************************************************************************)
(* Answer normalizers                                                      *)
(***************************************************************************)

normalize_terrain(answer) ==
    LET a == Lower(OrEmpty(answer)) IN
    IF Contains(a, "strad") THEN "strada"
    ELSE IF Contains(a, "grav") \/ Contains(a, "ghia") THEN "gravel"
    ELSE IF Contains(a, "mtb") \/ Contains(a, "mountain") THEN "mtb"
    ELSE "strada"

\* the normalizer without its default
normalize_rx_prescription_status_mut(answer) ==
    LET a == Lower(OrEmpty(answer))
        yes_keywords == <<"si", "yes", "ce l'ho", "ce lho", "ce l ho", "gia", "recent">>
        no_keywords == <<"no", "non ancora", "devo farla", "devo rifarla",
                         "vecchia", "scaduta">>
    IN IF AnyIn(yes_keywords, a) THEN "presente"
       ELSE IF AnyIn(no_keywords, a) THEN "mancante"
       ELSE Null

normalize_rx_prescription_status(answer) ==
    LET a == Lower(OrEmpty(answer))
        yes_keywords == <<"si", "yes", "ce l'ho", "ce lho", "ce l ho", "gia", "recent">>
        no_keywords == <<"no", "non ancora", "devo farla", "devo rifarla",
                         "vecchia", "scaduta">>
    IN IF AnyIn(yes_keywords, a) THEN "presente"
       ELSE IF AnyIn(no_keywords, a) THEN "mancante"
       ELSE "presente"

normalize_rx_solution_choice(answer) ==
    LET a == Lower(OrEmpty(answer)) IN
    IF Contains(a, "clip") \/ Contains(a, "inserto") \/ Contains(a, "insert")
        THEN "clip_in"
    ELSE IF Contains(a, "sport") \/ Contains(a, "dedicat") \/ Contains(a, "lenti graduate")
        THEN "sport_rx"
    ELSE IF Contains(a, "non so") \/ Contains(a, "guidami") \/ Contains(a, "decidi tu")
        THEN "non_so"
    ELSE "non_so"

normalize_light_condition(answer) ==
    LET a == Lower(OrEmpty(answer))
        keywords_variabile == <<"varia", "cambia", "ombra", "bosco", "boschi",
                                "tramonto", "altalenante", "spesso diversa",
                                "continuamente">>
        keywords_stabile == <<"stabile", "sempre uguale", "quasi sempre uguale",
                              "costante", "simile", "non cambia molto">>
    IN IF AnyIn(keywords_variabile, a) THEN "variabile"
       ELSE IF AnyIn(keywords_stabile, a) THEN "stabile"
       ELSE IF Contains(a, "sole") /\ Contains(a, "ombra") THEN "variabile"
       ELSE "variabile"

normalize_support_issue(text) ==
    LET t == Lower(OrEmpty(text)) IN
    IF Contains(t, "lente") \/ Contains(t, "vetro") THEN "lente"
    ELSE IF Contains(t, "montatura") \/ Contains(t, "frame")
            \/ Contains(t, "asta") \/ Contains(t, "aste") THEN "montatura"
    ELSE IF Contains(t, "vite") \/ Contains(t, "viti") \/ Contains(t, "screw")
        THEN "viti"
    ELSE IF Contains(t, "nasello") \/ Contains(t, "nose") \/ Contains(t, "nosepad")
        THEN "nasello"
    ELSE IF Contains(t, "clip") \/ Contains(t, "inserto") \/ Contains(t, "clip-in")
        THEN "clip"
    ELSE "non_specificato"

\* the dict possible_models, in its iteration order
possible_models ==
    << <<"aeroshade", "Aeroshade">>, <<"aerowing", "Aerowing">>,
       <<"aerotrail", "Aerotrail">>, <<"aerocomfort", "Aerocomfort">>,
       <<"aeroscope", "Aeroscope">> >>

normalize_support_model(answer) ==
    LET a == Lower(OrEmpty(answer))
        hits == {i \in 1..Len(possible_models) : Contains(a, possible_models[i][1])}
    IN IF hits = {} THEN "modello_non_specificato"
       ELSE possible_models[CHOOSE i \in hits : \A j \in hits : i <= j][2]

normalize_support_priority(answer) ==
    LET a == Lower(OrEmpty(answer)) IN
    IF AnyIn(<<"urgente", "subito", "immediato">>, a) THEN "urgente"
    ELSE IF AnyIn(<<"ricambio", "pezzo", "solo", "replacement">>, a) THEN "ricambio"
    ELSE IF AnyIn(<<"assistenza", "tecnica", "riparazione", "repair", "ticket">>, a)
        THEN "assistenza"
    ELSE IF AnyIn(<<"va bene", "quando puoi", "non urgente">>, a) THEN "non_urgente"
    ELSE "non_specificato"

\* ISSUE_SYNONYMS.get(i, i)
ISSUE_SYNONYMS(i) ==
    IF i \in {"lente", "vetro", "lenti", "lens"} THEN "lente-ricambio"
    ELSE IF i \in {"nasello", "nose", "nosepad"} THEN "nasello"
    ELSE IF i \in {"terminali", "terminal", "tips"} THEN "terminali"
    ELSE IF i \in {"kit-clip", "clip", "clip-in", "inserto"} THEN "kit-clip"
    ELSE i

canonicalize_issue(issue) ==
    IF issue = Null \/ issue = "" THEN Null
    ELSE ISSUE_SYNONYMS(Lower(Strip(issue)))

(***************************************************************************)
(* Event log (backend/logs/events.jsonl)                                   *)
(***************************************************************************)

\* One line of the log, as log_event writes it. The timestamp is left out:
\* no reader looks at it.
Event(session_id, event_type, data) ==
    [session_id |-> session_id, event_type |-> event_type, data |-> data]

\* A line that is not an event is [corrupt |-> text]: a truncated record, on
\* which json.loads raises, or a JSON value that is not an object.
TruncatedLine == [corrupt |-> "{'session_id': 's1', 'event_ty"]

ScalarLine == [corrupt |-> "42"]

\* json.loads(line) succeeds
Parses(line) == "corrupt" \notin DOMAIN line \/ line = ScalarLine

\* json.loads(line) is a dict: ev.get exists
IsDict(line) == "corrupt" \notin DOMAIN line

\* ev.get on a value that is not a dict raises AttributeError, which no
\* reader catches: the call ends with the exception
AttributeError == "<AttributeError>"

\* a list of events cannot hold the exception: the call that raises is
\* modelled as returning this list, which no log produces
Raised == <<[raised |-> AttributeError]>>

\* log_event with the file opened in mode "w": the line replaces the log
log_event_mut(l, session_id, event_type, data) ==
    <<Event(session_id, event_type, data)>>

\* log_event: open(..., "a") and write one line
log_event(l, session_id, event_type, data) ==
    Append(l, Event(session_id, event_type, data))

\* a handler's successive log_event calls, one per event of evs
RECURSIVE log_events(_, _)
log_events(l, evs) ==
    IF Len(evs) = 0 THEN l
    ELSE log_events(log_event(l, Head(evs).session_id, Head(evs).event_type,
                              Head(evs).data),
                    Tail(evs))

RECURSIVE ScanFlow(_, _, _)
ScanFlow(l, session_id, i) ==
    IF i = 0 THEN "sport_flow"
    ELSE IF ~Parses(l[i]) THEN ScanFlow(l, session_id, i - 1)
    ELSE IF ~IsDict(l[i]) THEN AttributeError
    ELSE IF Get(l[i], "session_id") = session_id
            /\ Get(l[i], "event_type") = "flow_detected"
         THEN (IF "flow" \in DOMAIN l[i].data THEN l[i].data.flow ELSE "sport_flow")
    ELSE ScanFlow(l, session_id, i - 1)

\* for line in reversed(lines): first flow_detected event of the session
get_flow_for_session(l, session_id) == ScanFlow(l, session_id, Len(l))

RECURSIVE ScanQuestion(_, _, _)
ScanQuestion(l, session_id, i) ==
    IF i = 0 THEN Null
    ELSE IF ~Parses(l[i]) THEN ScanQuestion(l, session_id, i - 1)
    ELSE IF ~IsDict(l[i]) THEN AttributeError
    ELSE IF Get(l[i], "session_id") # session_id
         THEN ScanQuestion(l, session_id, i - 1)
    ELSE IF Get(l[i], "event_type") = "question_asked"
         THEN Get(l[i].data, "question_id")
    ELSE ScanQuestion(l, session_id, i - 1)

\* get_last_question_id that drops the newest line of the log before scanning
get_last_question_id_mut(l, session_id) ==
    IF Len(l) = 0 THEN Null ELSE ScanQuestion(l, session_id, Len(l) - 1)

get_last_question_id(l, session_id) == ScanQuestion(l, session_id, Len(l))

\* the reader without the test on the session id
load_session_events_mut(l, session_id) == SelectSeq(l, IsDict)

\* the loop over the lines, every line of l being an event or a truncated record
RECURSIVE session_events(_, _)
session_events(l, session_id) ==
    IF Len(l) = 0 THEN <<>>
    ELSE IF Parses(Head(l)) /\ Get(Head(l), "session_id") = session_id
         THEN <<Head(l)>> \o session_events(Tail(l), session_id)
    ELSE session_events(Tail(l), session_id)

load_session_events(l, session_id) ==
    IF \E i \in 1..Len(l) : Parses(l[i]) /\ ~IsDict(l[i]) THEN Raised
    ELSE session_events(l, session_id)

(***************************************************************************)
(* User profile                                                            *)
(***************************************************************************)

EmptyProfile(l, session_id) ==
    [session_id |-> session_id,
     flow_type |-> get_flow_for_session(l, session_id),
     terrain |-> Null, light_condition |-> Null, sport_priority |-> Null,
     rx_prescription_status |-> Null, rx_solution_choice |-> Null,
     rx_priority |-> Null,
     support_issue |-> Null, support_model |-> Null, support_priority |-> Null,
     support_variant_unknown |-> FALSE]

\* the test on the raw SUP_Q2 answer made by build_user_profile_from_logs
profile_says_unknown(raw_low) ==
    \/ Contains(raw_low, "non lo so")
    \/ Contains(raw_low, "non so")
    \/ Contains(raw_low, "non ricordo")
    \/ Contains(raw_low, "non saprei")

\* one iteration of the loop over the session's events
profile_step(profile, ev) ==
    IF Get(ev, "event_type") # "answer_given" THEN profile
    ELSE
    LET data == ev.data
        qid == Get(data, "question_id")
        raw == Strip(OrEmpty(Get(data, "raw_answer")))
        normalized == Strip(OrEmpty(Get(data, "normalized")))
    IN IF qid = "SUP_Q1"
       THEN [profile EXCEPT !.support_issue =
                canonicalize_issue(Or(normalized, normalize_support_issue(raw)))]
       ELSE IF qid = "SUP_Q2"
       THEN IF profile_says_unknown(Lower(raw))
            THEN [profile EXCEPT !.support_model = "modello_non_specificato",
                                 !.support_variant_unknown = TRUE]
            ELSE IF raw # "" /\ Contains(raw, "-")
                 THEN [profile EXCEPT !.support_model = Strip(raw)]
                 ELSE [profile EXCEPT !.support_model =
                          Or(Or(normalized, normalize_support_model(raw)),
                             "modello_non_specificato")]
       ELSE IF qid = "SUP_Q3"
       THEN [profile EXCEPT !.support_priority =
                Or(normalized, normalize_support_priority(raw))]
       ELSE profile

RECURSIVE profile_loop(_, _)
profile_loop(profile, events) ==
    IF Len(events) = 0 THEN profile
    ELSE profile_loop(profile_step(profile, Head(events)), Tail(events))

build_user_profile_from_logs(l, session_id) ==
    IF load_session_events(l, session_id) = Raised THEN Raised
    ELSE profile_loop(EmptyProfile(l, session_id), load_session_events(l, session_id))

(***************************************************************************)
(* Spare-parts database                                                    *)
(***************************************************************************)

\* The database is a dict of dicts of lists, all insertion-ordered: a
\* sequence of [model, issues], issues a sequence of [issue, urls].
EmptyDb == <<>>

\* list(db.keys())
Keys(db) == [i \in 1..Len(db) |-> db[i].model]

\* an iteration that appends the URL of every complete row
add_row_mut(db, row) ==
    LET model == Strip(OrEmpty(Get(row, "model")))
        issue == Lower(Strip(OrEmpty(Get(row, "issue"))))
        url == Strip(OrEmpty(Get(row, "url")))
    IN IF model = "" \/ issue = "" \/ url = "" THEN db
       ELSE
       LET db1 == IF \E i \in 1..Len(db) : db[i].model = model THEN db
                  ELSE Append(db, [model |-> model, issues |-> <<>>])
           m == CHOOSE i \in 1..Len(db1) : db1[i].model = model
           iss == db1[m].issues
           iss1 == IF \E j \in 1..Len(iss) : iss[j].issue = issue THEN iss
                   ELSE Append(iss, [issue |-> issue, urls |-> <<>>])
           n == CHOOSE j \in 1..Len(iss1) : iss1[j].issue = issue
       IN [db1 EXCEPT ![m].issues =
              [iss1 EXCEPT ![n].urls = Append(iss1[n].urls, url)]]

\* one iteration of the loop over the rows of the CSV
add_row(db, row) ==
    LET model == Strip(OrEmpty(Get(row, "model")))
        issue == Lower(Strip(OrEmpty(Get(row, "issue"))))
        url == Strip(OrEmpty(Get(row, "url")))
    IN IF model = "" \/ issue = "" \/ url = "" THEN db
       ELSE
       LET db1 == IF \E i \in 1..Len(db) : db[i].model = model THEN db
                  ELSE Append(db, [model |-> model, issues |-> <<>>])
           m == CHOOSE i \in 1..Len(db1) : db1[i].model = model
           iss == db1[m].issues
           iss1 == IF \E j \in 1..Len(iss) : iss[j].issue = issue THEN iss
                   ELSE Append(iss, [issue |-> issue, urls |-> <<>>])
           n == CHOOSE j \in 1..Len(iss1) : iss1[j].issue = issue
           urls1 == IF \E u \in 1..Len(iss1[n].urls) : iss1[n].urls[u] = url
                    THEN iss1[n].urls
                    ELSE Append(iss1[n].urls, url)
       IN [db1 EXCEPT ![m].issues = [iss1 EXCEPT ![n].urls = urls1]]

RECURSIVE add_rows(_, _)
add_rows(db, rows) ==
    IF Len(rows) = 0 THEN db
    ELSE add_rows(add_row(db, Head(rows)), Tail(rows))

\* the database load_spare_parts_db builds from the CSV file
read_spare_parts_csv(source) ==
    IF ~source.exists THEN EmptyDb
    ELSE IF Len(source.fieldnames) = 0 THEN EmptyDb
    ELSE IF ~({"model", "issue", "url"} \subseteq
                {Lower(Strip(h)) : h \in Range(source.fieldnames)}) THEN EmptyDb
    ELSE add_rows(EmptyDb, source.rows)

\* load_spare_parts_db._cache before the first load
NoCache == <<[model |-> Null, issues |-> <<>>]>>

\* the loader that reads the file at every call
load_spare_parts_db_mut(force_reload) == read_spare_parts_csv(csv)

\* the database returned by load_spare_parts_db(force_reload); it is also
\* the value of the cache after the call
load_spare_parts_db(force_reload) ==
    IF cache # NoCache /\ ~force_reload THEN cache
    ELSE read_spare_parts_csv(csv)

\* `model in db`
InDb(db, model) == \E i \in 1..Len(db) : db[i].model = model

\* db[model], the issue map of a model that is in the database
IssuesOf(db, model) == db[CHOOSE i \in 1..Len(db) : db[i].model = model].issues

\* issue_map.get(issue): the URL list, None when the issue is absent
UrlsOf(issue_map, issue) ==
    IF \E j \in 1..Len(issue_map) : issue_map[j].issue = issue
    THEN issue_map[CHOOSE j \in 1..Len(issue_map) : issue_map[j].issue = issue].urls
    ELSE Null

\* insert x into a list sorted by length, after the elements that are no longer
RECURSIVE InsertByLen(_, _)
InsertByLen(sorted, x) ==
    IF Len(sorted) = 0 THEN <<x>>
    ELSE IF Len(Head(sorted)) <= Len(x)
         THEN <<Head(sorted)>> \o InsertByLen(Tail(sorted), x)
         ELSE <<x>> \o sorted

\* the list left in the order of the database, with the sort forgotten
SortedByLen_mut(xs) == xs

\* sorted(xs, key=len): stable, shortest first
RECURSIVE SortedByLen(_)
SortedByLen(xs) ==
    IF Len(xs) = 0 THEN <<>>
    ELSE InsertByLen(SortedByLen(SubSeq(xs, 1, Len(xs) - 1)), xs[Len(xs)])

\* the comparison without lower-casing the key
first_key_equal_mut(keys, low) ==
    LET hits == {i \in 1..Len(keys) : keys[i] = low}
    IN IF hits = {} THEN Null
       ELSE keys[CHOOSE i \in hits : \A j \in hits : i <= j]

\* first key k of the database with k.lower() == low, None when there is none
first_key_equal(keys, low) ==
    LET hits == {i \in 1..Len(keys) : Lower(keys[i]) = low}
    IN IF hits = {} THEN Null
       ELSE keys[CHOOSE i \in hits : \A j \in hits : i <= j]

\* [c for c in candidates if issue_key in db[c]]
RECURSIVE with_issue(_, _, _)
with_issue(db, candidates, issue_key) ==
    IF Len(candidates) = 0 THEN <<>>
    ELSE IF UrlsOf(IssuesOf(db, Head(candidates)), issue_key) # Null
         THEN <<Head(candidates)>> \o with_issue(db, Tail(candidates), issue_key)
         ELSE with_issue(db, Tail(candidates), issue_key)

resolve_model_key(model, db, issue) ==
    IF model = Null \/ model = "" \/ Len(db) = 0 THEN Null
    ELSE IF InDb(db, model) THEN model
    ELSE
    LET m_low == Lower(Strip(model))
        keys == Keys(db)
        same == {i \in 1..Len(keys) : Lower(Strip(keys[i])) = m_low}
        candidates == SelectKeys([i \in 1..Len(keys) |-> keys[i]], m_low)
        issue_key == Or(canonicalize_issue(Lower(Strip(OrEmpty(issue)))),
                        Lower(Strip(OrEmpty(issue))))
        issue_matches == with_issue(db, candidates, issue_key)
    IN IF same # {} THEN keys[CHOOSE i \in same : \A j \in same : i <= j]
       ELSE IF Len(candidates) = 0 THEN Null
       ELSE IF issue # Null /\ issue # "" /\ Len(issue_matches) >= 1
            THEN SortedByLen(issue_matches)[1]
       ELSE SortedByLen(candidates)[1]

\* the keyword buckets of resolve_issue_key
IssuePatterns ==
    [lente |-> <<"lens", "lente", "visor", "shield">>,
     montatura |-> <<"frame", "temple", "arm", "asta", "montatura">>,
     viti |-> <<"screw", "vite", "bolt">>,
     nasello |-> <<"nose", "nosepad", "pad">>,
     clip |-> <<"clip", "insert", "rx">>]

\* list(issue_map.keys())
IssueKeys(issue_map) == [j \in 1..Len(issue_map) |-> issue_map[j].issue]

\* for k in keys: if p in k: return k  -- None when the loop ends
FirstKeyContaining(keys, p) ==
    LET hits == {i \in 1..Len(keys) : Contains(keys[i], p)}
    IN IF hits = {} THEN Null
       ELSE keys[CHOOSE i \in hits : \A j \in hits : i <= j]

\* for p in ps: for k in keys: if p in k: return k  -- None when the loops end
RECURSIVE FirstOverParts(_, _)
FirstOverParts(ps, keys) ==
    IF Len(ps) = 0 THEN Null
    ELSE IF FirstKeyContaining(keys, Head(ps)) # Null
         THEN FirstKeyContaining(keys, Head(ps))
         ELSE FirstOverParts(Tail(ps), keys)

\* ui.replace("_", " ").replace("-", " ").split(); cur is the word being read
RECURSIVE Words(_, _)
Words(s, cur) ==
    IF Len(s) = 0 THEN (IF cur = "" THEN <<>> ELSE <<cur>>)
    ELSE IF SubSeq(s, 1, 1) \in {" ", "_", "-"}
         THEN (IF cur = "" THEN <<>> ELSE <<cur>>) \o Words(SubSeq(s, 2, Len(s)), "")
         ELSE Words(SubSeq(s, 2, Len(s)), cur \o SubSeq(s, 1, 1))

\* [x for x in ... if len(x) >= 3]
Parts(ui) == SelectSeq(Words(ui, ""), LAMBDA x : Len(x) >= 3)

\* the resolver without the keyword buckets
resolve_issue_key_mut(user_issue, issue_map) ==
    LET ui == Lower(Strip(OrEmpty(user_issue)))
        keys == IssueKeys(issue_map)
    IN IF Len(issue_map) = 0 \/ ui = "" THEN Null
       ELSE IF ui \in Range(keys) THEN ui
       ELSE IF FirstKeyContaining(keys, ui) # Null THEN FirstKeyContaining(keys, ui)
       ELSE FirstOverParts(Parts(ui), keys)

resolve_issue_key(user_issue, issue_map) ==
    LET ui == Lower(Strip(OrEmpty(user_issue)))
        keys == IssueKeys(issue_map)
    IN IF Len(issue_map) = 0 \/ ui = "" THEN Null
       ELSE IF ui \in Range(keys) THEN ui
       ELSE IF ui \in DOMAIN IssuePatterns /\ FirstOverParts(IssuePatterns[ui], keys) # Null
            THEN FirstOverParts(IssuePatterns[ui], keys)
       ELSE IF FirstKeyContaining(keys, ui) # Null THEN FirstKeyContaining(keys, ui)
       ELSE FirstOverParts(Parts(ui), keys)

(***************************************************************************)
(* Catalog scorer and selection (process_third_answer, imported by         *)
(* backend/api/advisor_api.py; its definition is not in the module)        *)
(***************************************************************************)

\* A catalog entry is [id, product_type, rx_compatible, rx_modes, terrain,
\* light, sport_priorities, rx_priorities], the last five being sets.

\* None where a product is expected
NoProduct == [id |-> Null]

\* +3 terrain, +3 light, +4 sport priority, +1 for a sport product
score_sport(profile, entry) ==
    (IF profile.terrain \in entry.terrain THEN 3 ELSE 0)
    + (IF profile.light_condition \in entry.light THEN 3 ELSE 0)
    + (IF profile.sport_priority \in entry.sport_priorities THEN 4 ELSE 0)
    + (IF entry.product_type = "sport" THEN 1 ELSE 0)

\* the RX score without the gate on rx_compatible
score_rx_mut(profile, entry) ==
    (IF profile.rx_solution_choice = "clip_in" /\ "clip_in" \in entry.rx_modes
     THEN 4 ELSE 0)
    + (IF profile.rx_solution_choice = "sport_rx" /\ "sport_rx" \in entry.rx_modes
       THEN 4 ELSE 0)
    + (IF profile.rx_solution_choice = "non_so" /\ entry.rx_modes # {} THEN 2 ELSE 0)
    + (IF profile.rx_priority \in entry.rx_priorities THEN 4 ELSE 0)
    + (IF profile.terrain \in entry.terrain THEN 2 ELSE 0)
    + (IF profile.light_condition \in entry.light THEN 2 ELSE 0)
    + (IF entry.product_type = "rx" THEN 1 ELSE 0)

\* 0 for an entry that is not rx_compatible; else +4 for the chosen mode
\* (clip_in or sport_rx) when the entry has it, +2 for "non_so" when the
\* entry has any mode, +4 rx priority, +2 terrain, +2 light, +1 for an rx
\* product
score_rx(profile, entry) ==
    IF ~entry.rx_compatible THEN 0
    ELSE
    (IF profile.rx_solution_choice = "clip_in" /\ "clip_in" \in entry.rx_modes
     THEN 4 ELSE 0)
    + (IF profile.rx_solution_choice = "sport_rx" /\ "sport_rx" \in entry.rx_modes
       THEN 4 ELSE 0)
    + (IF profile.rx_solution_choice = "non_so" /\ entry.rx_modes # {} THEN 2 ELSE 0)
    + (IF profile.rx_priority \in entry.rx_priorities THEN 4 ELSE 0)
    + (IF profile.terrain \in entry.terrain THEN 2 ELSE 0)
    + (IF profile.light_condition \in entry.light THEN 2 ELSE 0)
    + (IF entry.product_type = "rx" THEN 1 ELSE 0)

\* score(profile, catalogEntry), by the flow of the profile
score(profile, entry) ==
    IF profile.flow_type = "rx_flow" THEN score_rx(profile, entry)
    ELSE score_sport(profile, entry)

\* [(score, entry) for entry in catalog]
score_all(profile, catalog) ==
    [i \in 1..Len(catalog) |-> [score |-> score(profile, catalog[i]), entry |-> catalog[i]]]

\* the entries of the type of the flow, each with the fixed score 1
RECURSIVE fallback(_, _)
fallback(profile, catalog) ==
    IF Len(catalog) = 0 THEN <<>>
    ELSE IF Head(catalog).product_type =
               (IF profile.flow_type = "rx_flow" THEN "rx" ELSE "sport")
         THEN <<[score |-> 1, entry |-> Head(catalog)]>> \o fallback(profile, Tail(catalog))
         ELSE fallback(profile, Tail(catalog))

\* insert x into a list sorted by descending score, after the elements that
\* score no less
RECURSIVE InsertByScore(_, _)
InsertByScore(sorted, x) ==
    IF Len(sorted) = 0 THEN <<x>>
    ELSE IF Head(sorted).score >= x.score
         THEN <<Head(sorted)>> \o InsertByScore(Tail(sorted), x)
         ELSE <<x>> \o sorted

\* stable sort, highest score first
RECURSIVE SortedByScore(_)
SortedByScore(xs) ==
    IF Len(xs) = 0 THEN <<>>
    ELSE InsertByScore(SortedByScore(SubSeq(xs, 1, Len(xs) - 1)), xs[Len(xs)])

\* the scored entries in rank order; the fallback list when no entry scores
\* above 0
ranked(profile, catalog) ==
    IF \E i \in 1..Len(catalog) : score(profile, catalog[i]) > 0
    THEN SortedByScore(score_all(profile, catalog))
    ELSE fallback(profile, catalog)

\* the selection that takes the second-ranked entry whatever its score
select_mut(scored) ==
    [primary_product |-> IF Len(scored) >= 1 THEN scored[1].entry ELSE NoProduct,
     secondary_product |-> IF Len(scored) >= 2 THEN scored[2].entry ELSE NoProduct]

\* primary = highest; secondary = second-highest only if its score is > 0
select(scored) ==
    [primary_product |-> IF Len(scored) >= 1 THEN scored[1].entry ELSE NoProduct,
     secondary_product |-> IF Len(scored) >= 2 /\ scored[2].score > 0
                           THEN scored[2].entry ELSE NoProduct]

\* the recommendation block of the final response
recommend(profile, catalog) == select(ranked(profile, catalog))

(***************************************************************************)
(* Product search (backend/rag/product_search.py) and product advice       *)
(* (backend/chat/product_advisor.py)                                       *)
(***************************************************************************)

\* The two services are an environment env = [embedding, first, second]:
\* embedding is "ok" or "fails" (openai_client.embeddings.create raises);
\* first and second are what qdrant_client.query_points does at the first
\* and at the second call: "fails" (it raises), "none" (no points),
\* "performance" (the top_k hold a performance product) or "lifestyle" (they
\* hold lifestyle products only).  A call that ends with an exception
\* returns a record whose field raised names it.

NotFoundMessage == "Al momento non trovo prodotti adatti a partire da questa descrizione."

FoundMessage == "Ecco alcuni prodotti Scicon che potrebbero fare al caso tuo."

NeedDetailsMessage == "Per aiutarti a trovare il prodotto giusto ho bisogno di qualche dettaglio in piu'."

FallbackMessage == "Al momento non riesco a trovare un prodotto adatto alla tua richiesta."

\* _detect_query_flags: the two flags search_products reads
detect_query_flags(query) ==
    LET q == Lower(query)
        is_gravel == Contains(q, "gravel")
        is_mtb == AnyIn(<<"mtb", "mountain bike", "trail", "enduro">>, q)
        is_road == AnyIn(<<"bici da strada", "strada", "road bike", "corsa su strada">>, q)
        is_performance ==
            AnyIn(<<"performance", "gara", "race", "allenamenti lunghi", "uscite lunghe",
                    "competizione">>, q)
    IN [is_gravel |-> is_gravel,
        is_performance |->
            \/ is_performance
            \/ /\ is_gravel \/ is_mtb \/ is_road
               /\ AnyIn(<<"uscite lunghe", "allenamenti", "allenamento", "gran fondo",
                          "lunghe ore">>, q)]

\* _semantic_qdrant_search: _embed_query, then query_points, then the
\* re-ranking; neither call is inside a try
semantic_qdrant_search(embedding, points) ==
    IF embedding = "fails" THEN [raised |-> "OpenAIError"]
    ELSE IF points = "fails" THEN [raised |-> "QdrantError"]
    ELSE IF points = "none"
    THEN [raised |-> Null, bot_message |-> NotFoundMessage, products |-> <<>>,
          has_performance_topk |-> FALSE, has_lifestyle_topk |-> FALSE]
    ELSE [raised |-> Null, bot_message |-> FoundMessage,
          products |-> <<[name |-> IF points = "performance" THEN "Aeroshade" ELSE "Gravel"]>>,
          has_performance_topk |-> points = "performance",
          has_lifestyle_topk |-> points = "lifestyle"]

\* the four keys of the dict returned, without the debug block
Public(pass) ==
    [raised |-> Null, bot_message |-> pass.bot_message, products |-> pass.products]

search_products(query, env) ==
    IF Strip(query) = ""
    THEN [raised |-> Null, bot_message |-> NeedDetailsMessage, products |-> <<>>]
    ELSE
    LET query_flags == detect_query_flags(Strip(query))
        first_pass == semantic_qdrant_search(env.embedding, env.first)
        second_pass == semantic_qdrant_search(env.embedding, env.second)
    IN IF first_pass.raised # Null THEN first_pass
       ELSE IF ~(/\ query_flags.is_gravel /\ query_flags.is_performance
                 /\ first_pass.has_lifestyle_topk /\ ~first_pass.has_performance_topk)
            THEN Public(first_pass)
       ELSE IF second_pass.raised # Null THEN second_pass
       ELSE IF second_pass.has_performance_topk THEN Public(second_pass)
       ELSE Public(first_pass)

\* list(products) for the dict search_products returns: its keys
SearchResultKeys == <<"bot_message", "products", "follow_up_suggestions", "meta">>

\* build_product_advice: the value of search_products is used as a list of
\* Product.  It is a dict with four keys, so `not products` is false and
\* _build_products_context reads p.name of its first key, a str.
build_product_advice(user_query, env) ==
    LET products == search_products(user_query, env)
    IN IF products.raised # Null THEN products
       ELSE IF Len(SearchResultKeys) = 0
            THEN [raised |-> Null, bot_message |-> FallbackMessage, products |-> <<>>]
       ELSE [raised |-> "AttributeError"]

(***************************************************************************)
(* Bounds and inputs                                                       *)
(***************************************************************************)

\* number of calls (sessions started and answers processed) a run of Spec makes
MaxCalls == 4

\* the generator of the random module starts in one of the states 0..MaxSeed
MaxSeed == 1

\* session ids that uuid4 produces, in the order it produces them
SessionIds == <<"s1", "s2">>

\* a session id that a client sends but no session was started with
UnknownSession == "s0"

\* The random module is a deterministic generator with a hidden state: the
\* model keeps a state rng in 0..RngPeriod-1, the k-th random.choice of a call
\* (k = 0, 1, ...) returns the entry selected by rng + k, and a call that
\* makes n choices advances the state by n.
RngPeriod == 6

\* random.choice(xs), as the k-th choice of the call
Choice(xs, k) == xs[((rng + k) % Len(xs)) + 1]

\* the generator state after a call that made n choices
Advance(n) == (rng + n) % RngPeriod

\* every call appends exactly one question_asked or support_links_resolved
\* event, so this counts the calls made so far
RECURSIVE Calls(_)
Calls(l) ==
    IF Len(l) = 0 THEN 0
    ELSE Calls(Tail(l)) +
         (IF Get(Head(l), "event_type") \in {"question_asked", "support_links_resolved"}
          THEN 1 ELSE 0)

(***************************************************************************)
(* Question texts (abridged)                                               *)
(***************************************************************************)

Q1_TEXT == "Le tue uscite sono principalmente su strada, gravel o MTB?"
Q2_TEXT == "La luce cambia molto durante le tue uscite, oppure e' stabile?"
Q3_TEXT == "Se dovessi scegliere una priorita', cosa conta di piu' per te?"
Q1_RX_TEXT == "Hai gia' una prescrizione oculistica recente?"
Q2_RX_TEXT == "La soluzione che ti sembra piu' adatta qual e'?"
Q3_RX_TEXT == "Se dovessi scegliere una priorita' per la soluzione RX?"
SUP_Q1_TEXT == "Quale componente presenta il problema?"
SUP_Q2_TEXT == "Su quale modello hai riscontrato il problema?"
SUP_Q2_VARIANT_TEXT == "Scrivimi esattamente una delle varianti qui sopra."
SUP_Q3_TEXT == "Qual e' la tua priorita'?"
RESTART_TEXT == "Ok, ripartiamo da qui in modo pulito."

(***************************************************************************)
(* Session start                                                           *)
(***************************************************************************)

\* the classifier call raised, or its answer was not valid JSON
LLMFailure == [failed |-> TRUE]

\* detect_intent without the test of intent_primary against ALLOWED_INTENTS
detect_intent_mut(response) ==
    IF response = LLMFailure
    THEN [intent_primary |-> "valutazione", intent_secondary |-> Null,
          confidence |-> "bassa", reasoning |-> "Errore LLM"]
    ELSE [intent_primary |-> Get(response, "intent_primary"),
          intent_secondary |->
              IF Get(response, "intent_secondary") \in Range(ALLOWED_INTENTS)
              THEN response.intent_secondary ELSE Null,
          confidence |-> Get(response, "confidence"),
          reasoning |-> Get(response, "reasoning")]

detect_intent(response) ==
    IF response = LLMFailure
    THEN [intent_primary |-> "valutazione", intent_secondary |-> Null,
          confidence |-> "bassa", reasoning |-> "Errore LLM"]
    ELSE [intent_primary |->
              IF Get(response, "intent_primary") \in Range(ALLOWED_INTENTS)
              THEN response.intent_primary ELSE "valutazione",
          intent_secondary |->
              IF Get(response, "intent_secondary") \in Range(ALLOWED_INTENTS)
              THEN response.intent_secondary ELSE Null,
          confidence |-> Get(response, "confidence"),
          reasoning |-> Get(response, "reasoning")]

\* build_opening_message (texts abridged); it makes 2 or 3 random choices
build_opening_message(intent_primary) ==
    IF intent_primary = "prescrizione_ottica"
    THEN Choice(<<"rx-base-1.", "rx-base-2.", "rx-base-3.">>, 0)
            \o Choice(<<" rx-extra-1.", " rx-extra-2.", " rx-extra-3.">>, 1)
            \o " " \o Choice(<<" rx-closer-1.", " rx-closer-2.", " rx-closer-3.">>, 2)
    ELSE IF intent_primary = "post_vendita_supporto"
    THEN Choice(<<"sup-base-1.", "sup-base-2.", "sup-base-3.">>, 0)
            \o Choice(<<" sup-closer-1.", " sup-closer-2.", " sup-closer-3.">>, 1)
    ELSE
    LET extra_variants ==
            IF intent_primary = "comparazione"
                THEN <<" confronto-1.", " confronto-2.">>
            ELSE IF intent_primary = "riduzione_rischio"
                THEN <<" rischio-1.", " rischio-2.">>
            ELSE IF intent_primary = "affidabilita_tecnica"
                THEN <<" tecnica-1.", " tecnica-2.">>
            ELSE <<" domande-1.", " domande-2.">>
    IN Choice(<<"std-base-1.", "std-base-2.", "std-base-3.">>, 0)
            \o Choice(extra_variants, 1)
            \o " " \o Choice(<<" std-closer-1.", " std-closer-2.", " std-closer-3.">>, 2)

\* the number of random choices build_opening_message makes
opening_choices(intent_primary) ==
    IF intent_primary = "post_vendita_supporto" THEN 2 ELSE 3

get_first_question(intent_primary) ==
    IF intent_primary = "prescrizione_ottica" THEN Q1_RX_TEXT
    ELSE IF intent_primary = "post_vendita_supporto" THEN SUP_Q1_TEXT
    ELSE Q1_TEXT

\* the question id of the sport flow for every flow
first_question_id_mut(flow_type) == "Q1"

\* the question id start_advisor_session logs for a flow
first_question_id(flow_type) ==
    IF flow_type = "rx_flow" THEN "Q1_RX"
    ELSE IF flow_type = "support_flow" THEN "SUP_Q1"
    ELSE "Q1"

\* uuid4: the first id of SessionIds that no event of the log carries
Unused(i) == \A k \in 1..Len(log) : Get(log[k], "session_id") # SessionIds[i]

start_advisor_session(query, response) ==
    \E i \in 1..Len(SessionIds) :
        /\ Unused(i)
        /\ \A j \in 1..(i - 1) : ~Unused(j)
        /\ LET session_id == SessionIds[i]
               intents == detect_intent(response)
               flow_type == route_intent(intents.intent_primary)
               next_question == get_first_question(intents.intent_primary)
               qid == first_question_id(flow_type)
               assistant_message == build_opening_message(intents.intent_primary)
           IN   /\ log' = log_events(log,
                     << Event(session_id, "session_start", [query |-> query]),
                        Event(session_id, "intent_detected", intents),
                        Event(session_id, "flow_detected", [flow |-> flow_type]),
                        Event(session_id, "assistant_message",
                              [text |-> assistant_message]),
                        Event(session_id, "question_asked",
                              [text |-> next_question, question_id |-> qid]) >>)
                /\ ret' = [call |-> [op |-> "start_advisor_session",
                                     session_id |-> session_id, answer |-> query,
                                     response |-> response],
                           value |-> [session_id |-> session_id,
                                      intent_primary |-> intents.intent_primary,
                                      intent_secondary |-> intents.intent_secondary,
                                      assistant_message |-> assistant_message,
                                      next_question |-> next_question]]
                /\ rng' = Advance(opening_choices(intents.intent_primary))
                /\ UNCHANGED <<cache, csv, obs>>

(***************************************************************************)
(* Step handlers                                                           *)
(***************************************************************************)

\* A handler's local variables are bound in the order the code assigns them,
\* each by \E x \in {value}.

\* the events every handler appends around its message, and what it returns
AnswerGiven(session_id, qid, answer, normalized) ==
    Event(session_id, "answer_given",
          [question_id |-> qid, raw_answer |-> answer, normalized |-> normalized])

AssistantMessage(session_id, text) ==
    Event(session_id, "assistant_message", [text |-> text])

QuestionAsked(session_id, qid, text) ==
    Event(session_id, "question_asked", [question_id |-> qid, text |-> text])

VariantUnknown(session_id, unknown, answer) ==
    Event(session_id, "support_variant_unknown",
          [unknown |-> unknown, raw_answer |-> answer])

Returned(op, session_id, answer, value) ==
    [call |-> [op |-> op, session_id |-> session_id, answer |-> answer],
     value |-> value]

NextQuestion(session_id, assistant_msg, q) ==
    [session_id |-> session_id, assistant_message |-> assistant_msg,
     next_question |-> q]

terrain_templates(normalized) ==
    IF normalized = "strada" THEN <<"strada-1.", "strada-2.", "strada-3.">>
    ELSE IF normalized = "gravel" THEN <<"gravel-1.", "gravel-2.", "gravel-3.">>
    ELSE IF normalized = "mtb" THEN <<"mtb-1.", "mtb-2.", "mtb-3.">>
    ELSE <<"Perfetto.">>

\* the handler with the next question drawn like a phrase
process_sport_first_answer_mut(session_id, answer) ==
    LET normalized == normalize_terrain(answer) IN
        LET base_msg == Choice(terrain_templates(normalized), 0)
            followup == Choice(<<" followup-1.", " followup-2.", " followup-3.">>, 1)
            assistant_msg == base_msg \o followup
            q2 == Choice(<<Q2_TEXT, Q3_TEXT>>, 2)
        IN
        /\ log' = log_events(log, << AnswerGiven(session_id, "Q1", answer, normalized),
                            AssistantMessage(session_id, assistant_msg),
                            QuestionAsked(session_id, "Q2", q2) >>)
        /\ ret' = Returned("process_sport_first_answer", session_id, answer,
                           NextQuestion(session_id, assistant_msg, q2))
        /\ rng' = Advance(3)
        /\ UNCHANGED <<cache, csv, obs>>

process_sport_first_answer(session_id, answer) ==
    LET normalized == normalize_terrain(answer) IN
        LET base_msg == Choice(terrain_templates(normalized), 0)
            followup == Choice(<<" followup-1.", " followup-2.", " followup-3.">>, 1)
            assistant_msg == base_msg \o followup
        IN
        /\ log' = log_events(log, << AnswerGiven(session_id, "Q1", answer, normalized),
                            AssistantMessage(session_id, assistant_msg),
                            QuestionAsked(session_id, "Q2", Q2_TEXT) >>)
        /\ ret' = Returned("process_sport_first_answer", session_id, answer,
                           NextQuestion(session_id, assistant_msg, Q2_TEXT))
        /\ rng' = Advance(2)
        /\ UNCHANGED <<cache, csv, obs>>

process_rx_first_answer(session_id, answer) ==
    LET normalized == normalize_rx_prescription_status(answer)
        msg_variants ==
            IF normalized = "presente"
            THEN <<"presente-1.", "presente-2.", "presente-3.">>
            ELSE <<"mancante-1.", "mancante-2.", "mancante-3.">>
    IN
        LET msg == Choice(msg_variants, 0)
            connector == Choice(<<" rx-conn-1.", " rx-conn-2.", " rx-conn-3.">>, 1)
            assistant_msg == msg \o connector
        IN
        /\ log' = log_events(log, << AnswerGiven(session_id, "Q1_RX", answer, normalized),
                            AssistantMessage(session_id, assistant_msg),
                            QuestionAsked(session_id, "Q2_RX", Q2_RX_TEXT) >>)
        /\ ret' = Returned("process_rx_first_answer", session_id, answer,
                           NextQuestion(session_id, assistant_msg, Q2_RX_TEXT))
        /\ rng' = Advance(2)
        /\ UNCHANGED <<cache, csv, obs>>

process_sport_second_answer(session_id, answer) ==
    LET normalized == normalize_light_condition(answer)
        msg_variants ==
            IF normalized = "variabile"
            THEN <<"variabile-1.", "variabile-2.", "variabile-3.">>
            ELSE <<"stabile-1.", "stabile-2.", "stabile-3.">>
        reasoning_variants ==
            IF normalized = "variabile"
            THEN <<"fotocromatica-1.", "fotocromatica-2.", "fotocromatica-3.">>
            ELSE <<"fissa-1.", "fissa-2.", "fissa-3.">>
    IN
        LET msg == Choice(msg_variants, 0)
            reasoning == Choice(reasoning_variants, 1)
            connector == Choice(<<" conn-1.", " conn-2.", " conn-3.">>, 2)
            assistant_msg == msg \o " " \o reasoning \o connector
        IN
        /\ log' = log_events(log, << AnswerGiven(session_id, "Q2", answer, normalized),
                            AssistantMessage(session_id, assistant_msg),
                            QuestionAsked(session_id, "Q3", Q3_TEXT) >>)
        /\ ret' = Returned("process_sport_second_answer", session_id, answer,
                           NextQuestion(session_id, assistant_msg, Q3_TEXT))
        /\ rng' = Advance(3)
        /\ UNCHANGED <<cache, csv, obs>>

process_rx_second_answer(session_id, answer) ==
    LET normalized == normalize_rx_solution_choice(answer)
        msg_variants ==
            IF normalized = "clip_in"
            THEN <<"clip-1.", "clip-2.", "clip-3.">>
            ELSE IF normalized = "sport_rx"
            THEN <<"sportrx-1.", "sportrx-2.", "sportrx-3.">>
            ELSE <<"guida-1.", "guida-2.", "guida-3.">>
    IN
        LET msg == Choice(msg_variants, 0)
            connector == Choice(<<" rx-conn2-1.", " rx-conn2-2.", " rx-conn2-3.">>, 1)
            assistant_msg == msg \o connector
        IN
        /\ log' = log_events(log, << AnswerGiven(session_id, "Q2_RX", answer, normalized),
                            AssistantMessage(session_id, assistant_msg),
                            QuestionAsked(session_id, "Q3_RX", Q3_RX_TEXT) >>)
        /\ ret' = Returned("process_rx_second_answer", session_id, answer,
                           NextQuestion(session_id, assistant_msg, Q3_RX_TEXT))
        /\ rng' = Advance(2)
        /\ UNCHANGED <<cache, csv, obs>>

\* msg_map.get(issue, msg_map["non_specificato"])
support_issue_message(issue) ==
    IF issue = "lente" THEN "Ok, hai un problema legato alla lente."
    ELSE IF issue = "montatura" THEN "Ok, problema sulla montatura o sulle aste."
    ELSE IF issue = "viti" THEN "Ok, sembra un problema di viti."
    ELSE IF issue = "nasello" THEN "Ok, possiamo risolvere il problema del nasello."
    ELSE IF issue = "clip" THEN "E' un problema relativo al clip-in."
    ELSE "Ok, ho capito il problema generale."

\* process_support_first_answer logging the question before its message
process_support_first_answer_mut(session_id, answer) ==
    LET issue == normalize_support_issue(answer)
        assistant_msg == support_issue_message(issue) \o " Puoi dirmi su quale modello?"
    IN /\ log' = log_events(log, << AnswerGiven(session_id, "SUP_Q1", answer, issue),
                           QuestionAsked(session_id, "SUP_Q2", SUP_Q2_TEXT),
                           AssistantMessage(session_id, assistant_msg) >>)
       /\ ret' = Returned("process_support_first_answer", session_id, answer,
                          NextQuestion(session_id, assistant_msg, SUP_Q2_TEXT))
       /\ UNCHANGED <<cache, csv, rng, obs>>

process_support_first_answer(session_id, answer) ==
    LET issue == normalize_support_issue(answer)
        assistant_msg == support_issue_message(issue) \o " Puoi dirmi su quale modello?"
    IN /\ log' = log_events(log, << AnswerGiven(session_id, "SUP_Q1", answer, issue),
                           AssistantMessage(session_id, assistant_msg),
                           QuestionAsked(session_id, "SUP_Q2", SUP_Q2_TEXT) >>)
       /\ ret' = Returned("process_support_first_answer", session_id, answer,
                          NextQuestion(session_id, assistant_msg, SUP_Q2_TEXT))
       /\ UNCHANGED <<cache, csv, rng, obs>>

\* "\n".join(f"- {v}" for v in variants_sorted)
RECURSIVE variants_text(_)
variants_text(variants_sorted) ==
    IF Len(variants_sorted) = 0 THEN ""
    ELSE IF Len(variants_sorted) = 1 THEN "- " \o variants_sorted[1]
    ELSE "- " \o Head(variants_sorted) \o "\n" \o variants_text(Tail(variants_sorted))

\* the test of the first branch without the exact phrases ("boh", "non so", ...)
sup_q2_is_unknown_mut(raw_input, raw_low) ==
    \/ raw_input = ""
    \/ Contains(raw_low, "non lo so")
    \/ Contains(raw_low, "non so la variante")

\* the first branch of process_support_second_answer: the user does not
\* know the variant
sup_q2_is_unknown(raw_input, raw_low) ==
    \/ raw_input = ""
    \/ Contains(raw_low, "non lo so")
    \/ raw_low \in {"non so", "boh", "non saprei", "non ricordo"}
    \/ Contains(raw_low, "non so la variante")

unknown_variant_message == "Va benissimo, succede spesso. Andiamo avanti."

model_message(model) ==
    "Perfetto, problema sul modello **" \o model \o "**. Ho un'ultima domanda."

ask_variant_message(base_model, variants_sorted) ==
    "Perfetto, problema sul modello **" \o base_model \o "**.\n"
        \o "Quale variante hai?\n" \o variants_text(variants_sorted)

process_support_second_answer(session_id, answer) ==
    \E raw_input \in {Strip(OrEmpty(answer))} :
    \E raw_low \in {Lower(raw_input)} :
    \E spare_db \in {load_spare_parts_db(FALSE)} :
    \E exact_variant \in {first_key_equal(Keys(spare_db), raw_low)} :
    \E base_model \in {Or(normalize_support_model(raw_input),
                          "modello_non_specificato")} :
    \E base_low \in {Lower(base_model)} :
    \E variants \in {SelectKeys(Keys(spare_db), base_low)} :
    \E variants_sorted \in {SortedByLen(variants)} :
    \E final_model \in {IF Len(variants) = 1 THEN variants[1] ELSE base_model} :
    \E op \in {"process_support_second_answer"} :
    /\ cache' = spare_db
    /\ UNCHANGED <<csv, rng, obs>>
    /\ IF sup_q2_is_unknown(raw_input, raw_low)
       THEN /\ log' = log_events(log,
                 << AnswerGiven(session_id, "SUP_Q2", answer, "modello_non_specificato"),
                    VariantUnknown(session_id, TRUE, answer),
                    AssistantMessage(session_id, unknown_variant_message),
                    QuestionAsked(session_id, "SUP_Q3", SUP_Q3_TEXT) >>)
            /\ ret' = Returned(op, session_id, answer,
                        NextQuestion(session_id, unknown_variant_message, SUP_Q3_TEXT))
       ELSE IF exact_variant # Null
       THEN /\ log' = log_events(log,
                 << AnswerGiven(session_id, "SUP_Q2", answer, exact_variant),
                    VariantUnknown(session_id, FALSE, answer),
                    AssistantMessage(session_id, model_message(exact_variant)),
                    QuestionAsked(session_id, "SUP_Q3", SUP_Q3_TEXT) >>)
            /\ ret' = Returned(op, session_id, answer,
                        NextQuestion(session_id, model_message(exact_variant),
                                     SUP_Q3_TEXT))
       ELSE IF Len(variants) > 1
       THEN /\ log' = log_events(log,
                 << AnswerGiven(session_id, "SUP_Q2", answer, base_model),
                    AssistantMessage(session_id,
                        ask_variant_message(base_model, variants_sorted)),
                    QuestionAsked(session_id, "SUP_Q2_VARIANT", SUP_Q2_VARIANT_TEXT) >>)
            /\ ret' = Returned(op, session_id, answer,
                        NextQuestion(session_id,
                            ask_variant_message(base_model, variants_sorted),
                            SUP_Q2_VARIANT_TEXT))
       ELSE /\ log' = log_events(log,
                 << AnswerGiven(session_id, "SUP_Q2", answer, base_model) >> \o
                 (IF final_model # base_model
                  THEN << AnswerGiven(session_id, "SUP_Q2", answer, final_model) >>
                  ELSE <<>>) \o
                 << VariantUnknown(session_id, FALSE, answer),
                    AssistantMessage(session_id, model_message(final_model)),
                    QuestionAsked(session_id, "SUP_Q3", SUP_Q3_TEXT) >>)
            /\ ret' = Returned(op, session_id, answer,
                        NextQuestion(session_id, model_message(final_model),
                                     SUP_Q3_TEXT))

\* s.split("-")[0]
RECURSIVE BeforeDash(_)
BeforeDash(s) ==
    IF Len(s) = 0 THEN ""
    ELSE IF SubSeq(s, 1, 1) = "-" THEN ""
    ELSE SubSeq(s, 1, 1) \o BeforeDash(SubSeq(s, 2, Len(s)))

reprompt_message(variants_sorted) ==
    "Ok, non riesco a riconoscere quella variante.\n"
        \o "Scegli una di queste (copiala uguale):\n"
        \o (IF Len(variants_sorted) > 0 THEN variants_text(variants_sorted)
            ELSE "- (nessuna variante trovata)")

chosen_message(chosen) ==
    "Perfetto: variante **" \o chosen \o "**. Ho un'ultima domanda."

process_support_variant_answer(session_id, answer) ==
    \E raw \in {Strip(OrEmpty(answer))} :
    \E raw_low \in {Lower(raw)} :
    \E spare_db \in {load_spare_parts_db(FALSE)} :
    \E chosen \in {first_key_equal(Keys(spare_db), raw_low)} :
    \E log1 \in {log_event(log, session_id, "answer_given",
                    [question_id |-> "SUP_Q2_VARIANT", raw_answer |-> answer,
                     normalized |-> Or(chosen, raw)])} :
    \E profile \in {build_user_profile_from_logs(log1, session_id)} :
    \E base_model \in {Or(profile.support_model, "modello_non_specificato")} :
    \E split_low \in {BeforeDash(Lower(Strip(base_model)))} :
    \E base_low \in {IF split_low = ""
                         \/ split_low \in {"modello_non_specificato", "none"}
                      THEN "aero" ELSE split_low} :
    \E variants \in {SelectKeys(Keys(spare_db), base_low)} :
    \E variants_sorted \in {SortedByLen(variants)} :
    \E op \in {"process_support_variant_answer"} :
    /\ cache' = spare_db
    /\ UNCHANGED <<csv, rng, obs>>
    /\ IF chosen = Null
       THEN /\ log' = log_events(log1,
                 << AssistantMessage(session_id, reprompt_message(variants_sorted)),
                    QuestionAsked(session_id, "SUP_Q2_VARIANT", SUP_Q2_VARIANT_TEXT) >>)
            /\ ret' = Returned(op, session_id, answer,
                        NextQuestion(session_id, reprompt_message(variants_sorted),
                                     SUP_Q2_VARIANT_TEXT))
       ELSE /\ log' = log_events(log1,
                 << VariantUnknown(session_id, FALSE, answer),
                    AnswerGiven(session_id, "SUP_Q2", chosen, chosen),
                    AssistantMessage(session_id, chosen_message(chosen)),
                    QuestionAsked(session_id, "SUP_Q3", SUP_Q3_TEXT) >>)
            /\ ret' = Returned(op, session_id, answer,
                        NextQuestion(session_id, chosen_message(chosen), SUP_Q3_TEXT))

\* the handler without its branch for lists: only a single string is a link
stripped_links_mut(link) == <<>>

\* [str(u).strip() for u in link if str(u).strip()]
RECURSIVE stripped_links(_)
stripped_links(link) ==
    IF Len(link) = 0 THEN <<>>
    ELSE IF Strip(Head(link)) # ""
         THEN <<Strip(Head(link))>> \o stripped_links(Tail(link))
         ELSE stripped_links(Tail(link))

\* the closing part of the final support message, chosen by priority
support_solution_message(priority, direct_links) ==
    IF priority = "ricambio"
    THEN (IF Len(direct_links) >= 2 THEN "Ho trovato piu' opzioni:"
          ELSE IF Len(direct_links) = 1 THEN "Ricambio:"
          ELSE "Mi manca il link preciso per questa combinazione. "
               \o "Se mi scrivi la variante o un codice prodotto, lo recupero.")
    ELSE IF priority = "assistenza"
    THEN "Ti scrivo un testo pronto da inoltrare al supporto. "
         \o "Vuoi includere anche una foto del pezzo o del danno?"
    ELSE IF priority = "urgente"
    THEN "Per urgenze la via piu' rapida e' contattare subito il supporto. "
         \o "Se mi confermi il modello e una foto del problema, ti preparo un messaggio."
    ELSE "Possiamo procedere con calma e individuare il ricambio esatto. "
         \o "Se mi dai la variante o un codice prodotto, restringo al 100%."

\* the answer to SUP_Q3 handled as an answer to SUP_Q1
process_support_third_answer_mut(session_id, answer) ==
    process_support_first_answer(session_id, answer)

process_support_third_answer(session_id, answer) ==
    \E priority \in {normalize_support_priority(answer)} :
    \E log1 \in {log_event(log, session_id, "answer_given",
                    [question_id |-> "SUP_Q3", raw_answer |-> answer,
                     normalized |-> priority])} :
    \E profile \in {build_user_profile_from_logs(log1, session_id)} :
    \E issue_raw \in {Strip(Or(profile.support_issue, "problema"))} :
    \E issue_key \in {Lower(Strip(issue_raw))} :
    \E model_input \in {Strip(Or(profile.support_model, "modello_non_specificato"))} :
    \E spare_db \in {load_spare_parts_db(FALSE)} :
    \E resolved_model \in {Or(resolve_model_key(model_input, spare_db, issue_raw),
                             model_input)} :
    \E link \in {IF InDb(spare_db, resolved_model)
                THEN UrlsOf(IssuesOf(spare_db, resolved_model), issue_key)
                ELSE Null} :
    \E direct_links \in {IF link = Null THEN <<>> ELSE stripped_links(link)} :
    \E shown_model \in {IF model_input # "modello_non_specificato"
                       THEN model_input ELSE resolved_model} :
    \E has_variants \in {FALSE} :
    \E assistant_msg \in {"Riepilogo: " \o issue_raw \o " / " \o shown_model \o ". "
                            \o support_solution_message(priority, direct_links)} :
    /\ cache' = spare_db
    /\ UNCHANGED <<csv, rng, obs>>
    /\ log' = log_event(log1, session_id, "support_links_resolved",
                [model_input |-> model_input, model_resolved |-> resolved_model,
                 issue_raw |-> issue_raw, issue_key |-> issue_key,
                 priority |-> priority, links_count |-> Len(direct_links),
                 has_variants |-> has_variants])
    /\ ret' = Returned("process_support_third_answer", session_id, answer,
                [session_id |-> session_id, assistant_message |-> assistant_msg,
                 recommendation |->
                    [model |-> shown_model, resolved_model |-> resolved_model,
                     issue |-> issue_raw, issue_key |-> issue_key,
                     priority |-> priority, direct_links |-> direct_links,
                     has_variants |-> has_variants]])

(***************************************************************************)
(* Dispatcher                                                              *)
(***************************************************************************)

\* the fallback question without the rx_flow case
restart_question_mut(flow_type) ==
    IF flow_type = "support_flow"
        THEN [question_id |-> "SUP_Q1", text |-> SUP_Q1_TEXT]
    ELSE [question_id |-> "Q1", text |-> Q1_TEXT]

\* the question process_answer falls back to: the first one of the flow
restart_question(flow_type) ==
    IF flow_type = "support_flow"
        THEN [question_id |-> "SUP_Q1", text |-> SUP_Q1_TEXT]
    ELSE IF flow_type = "rx_flow"
        THEN [question_id |-> "Q1_RX", text |-> Q1_RX_TEXT]
    ELSE [question_id |-> "Q1", text |-> Q1_TEXT]

\* a fallback that also logs the default flow before the question
restart_mut(session_id, answer, flow_type) ==
    LET q == restart_question(flow_type) IN
    /\ log' = log_events(log,
                 << Event(session_id, "flow_detected", [flow |-> "sport_flow"]),
                    Event(session_id, "question_asked",
                          [question_id |-> q.question_id, text |-> q.text]) >>)
    /\ ret' = Returned("process_answer", session_id, answer,
                       NextQuestion(session_id, RESTART_TEXT, q.text))
    /\ UNCHANGED <<cache, csv, rng, obs>>

\* the fallback of process_answer: log the question and return it
restart(session_id, answer, flow_type) ==
    LET q == restart_question(flow_type) IN
    /\ log' = log_event(log, session_id, "question_asked",
                        [question_id |-> q.question_id, text |-> q.text])
    /\ ret' = Returned("process_answer", session_id, answer,
                       NextQuestion(session_id, RESTART_TEXT, q.text))
    /\ UNCHANGED <<cache, csv, rng, obs>>

\* process_answer without the branch for SUP_Q3
process_answer_mut(session_id, answer) ==
    LET flow_type == get_flow_for_session(log, session_id)
        last_qid == get_last_question_id(log, session_id)
    IN IF flow_type = "support_flow" /\ last_qid = "SUP_Q1"
            THEN process_support_first_answer(session_id, answer)
       ELSE IF flow_type = "support_flow" /\ last_qid = "SUP_Q2"
            THEN process_support_second_answer(session_id, answer)
       ELSE IF flow_type = "support_flow" /\ last_qid = "SUP_Q2_VARIANT"
            THEN process_support_variant_answer(session_id, answer)
       ELSE restart(session_id, answer, flow_type)

process_answer(session_id, answer) ==
    LET flow_type == get_flow_for_session(log, session_id)
        last_qid == get_last_question_id(log, session_id)
    IN IF flow_type = "support_flow" /\ last_qid = "SUP_Q1"
            THEN process_support_first_answer(session_id, answer)
       ELSE IF flow_type = "support_flow" /\ last_qid = "SUP_Q2"
            THEN process_support_second_answer(session_id, answer)
       ELSE IF flow_type = "support_flow" /\ last_qid = "SUP_Q2_VARIANT"
            THEN process_support_variant_answer(session_id, answer)
       ELSE IF flow_type = "support_flow" /\ last_qid = "SUP_Q3"
            THEN process_support_third_answer(session_id, answer)
       ELSE restart(session_id, answer, flow_type)

\* the body of process_answer after its two reads of the log
dispatch_answer(session_id, answer, flow_type, last_qid) ==
    IF flow_type = "support_flow" /\ last_qid = "SUP_Q1"
         THEN process_support_first_answer(session_id, answer)
    ELSE IF flow_type = "support_flow" /\ last_qid = "SUP_Q2"
         THEN process_support_second_answer(session_id, answer)
    ELSE IF flow_type = "support_flow" /\ last_qid = "SUP_Q2_VARIANT"
         THEN process_support_variant_answer(session_id, answer)
    ELSE IF flow_type = "support_flow" /\ last_qid = "SUP_Q3"
         THEN process_support_third_answer(session_id, answer)
    ELSE restart(session_id, answer, flow_type)

(***************************************************************************)
(* Inputs of the model                                                     *)
(***************************************************************************)

\* spare_parts_links.csv: a file with several models, some sharing a base
\* name, a repeated row, a row without URL and a header in mixed case
FullSource ==
    [exists |-> TRUE,
     fieldnames |-> <<"Model", "issue ", "URL">>,
     rows |-> << [model |-> "Aeroshade-kunken", issue |-> "lente-ricambio",
                  url |-> "https://shop/kunken-lens"],
                 [model |-> "Aeroshade-xl", issue |-> "Lente-Ricambio",
                  url |-> "https://shop/xl-lens"],
                 [model |-> "Aerowing-pro", issue |-> "nasello",
                  url |-> "https://shop/wing-pro-nose"],
                 [model |-> "Aerowing", issue |-> "nasello",
                  url |-> "https://shop/wing-nose"],
                 [model |-> "Aeroshade-xl", issue |-> "lente-ricambio",
                  url |-> "https://shop/xl-lens"],
                 [model |-> " Aerotrail-s ", issue |-> "lente-ricambio",
                  url |-> "https://shop/trail-lens"],
                 [model |-> "Aeroscope", issue |-> "nasello", url |-> ""] >>]

\* the file does not exist
MissingSource == [exists |-> FALSE, fieldnames |-> <<>>, rows |-> <<>>]

Sources == {FullSource, MissingSource}

Queries == {"ho un problema con i miei occhiali"}

\* what the classifier answers
LLMResponses ==
    {LLMFailure}
    \cup {[intent_primary |-> p, intent_secondary |-> Null, confidence |-> "alta",
           reasoning |-> "ok"] :
            p \in {"post_vendita_supporto", "prescrizione_ottica", "comparazione",
                   "budget", "info_lenti"}}
    \cup {[intent_primary |-> "saluto", intent_secondary |-> "budget",
           confidence |-> "alta", reasoning |-> "ok"]}

SupportResponses ==
    {[intent_primary |-> "post_vendita_supporto", intent_secondary |-> Null,
      confidence |-> "alta", reasoning |-> "ok"]}

\* answers given in the sessions of Spec
Answers == {"strada", "Aeroshade"}

\* answers given in the support session of SpecSupport
SupportAnswers ==
    {"", "boh", "Aeroshade non lo so", "Aeroshade", "Aeroshade-XL ", "my aerowing"}

\* number of calls a run of SpecSupport makes
MaxSupportCalls == 5

AllSessions == Range(SessionIds) \cup {UnknownSession}

NoReturn == [call |-> [op |-> "none", session_id |-> Null, answer |-> Null],
             value |-> [session_id |-> Null]]

\* obs holds the last two results a caller got from the readers of the log
NoObs == [op |-> "none", session_id |-> Null, log |-> <<>>, result |-> Null]

\* answers given to the handlers called directly in SpecHandlers
HandlerAnswers ==
    {"boh", "non lo so", "Aeroshade", "Aeroshade-xl", "Aerotrail", "Aerotrail-x",
     "strada"}

\* number of calls a run of SpecHandlers makes
MaxHandlerCalls == 2

\* answers given in the session of SpecRead
ReadAnswers == {"lente", "Aeroshade-xl"}

\* number of calls that write the log in a run of SpecRead
MaxReadCalls == 3

\* the strings route_intent is applied to in SpecRoute: the ten intents, the
\* missing value and labels outside the vocabulary
IntentInputs ==
    Range(ALLOWED_INTENTS) \cup {Null, "", "Budget", "saluto", "info_lenti "}

\* the answers the normalizers are applied to in SpecPure: the missing value,
\* the empty string, texts without any keyword and texts with keywords
NormalizerInputs ==
    {Null, "", "boh", "xyz 42", "Gravel", "no", "inserto", "sempre uguale", "viti",
     "my aerowing", "non urgente", "MTB"}

Normalizers ==
    {"normalize_terrain", "normalize_rx_prescription_status",
     "normalize_rx_solution_choice", "normalize_light_condition",
     "normalize_support_issue", "normalize_support_model",
     "normalize_support_priority"}

\* what the classifier answers in SpecPhrasing, and the answers given there
PhrasingResponses ==
    {r \in LLMResponses : r = LLMFailure \/ r.intent_primary = "prescrizione_ottica"}

PhrasingAnswers == {"gravel"}

\* number of calls the log of a run of SpecPhrasing holds
MaxPhrasingCalls == 2

\* a file with several URLs for one model and issue, one of them repeated,
\* and rows without model, without issue and without URL
RepeatedSource ==
    [exists |-> TRUE,
     fieldnames |-> <<"model", "issue", "url">>,
     rows |-> << [model |-> "Aerowing", issue |-> "nasello", url |-> "https://shop/b"],
                 [model |-> "Aerowing", issue |-> "Nasello ", url |-> "https://shop/a"],
                 [model |-> "", issue |-> "nasello", url |-> "https://shop/c"],
                 [model |-> "Aerowing", issue |-> "nasello", url |-> " https://shop/b"],
                 [model |-> "Aerowing", issue |-> " ", url |-> "https://shop/d"],
                 [model |-> "Aerowing", issue |-> "lente-ricambio"],
                 [model |-> "Aerowing", issue |-> "nasello", url |-> "https://shop/e"] >>]

\* a file without the url column
NoUrlColumnSource ==
    [exists |-> TRUE,
     fieldnames |-> <<"model", "issue">>,
     rows |-> << [model |-> "Aerowing", issue |-> "nasello"] >>]

\* the contents spare_parts_links.csv takes in SpecDb
DbSources == Sources \cup {RepeatedSource, NoUrlColumnSource}

\* the threads that serve process_answer calls at the same time
Threads == {"t1", "t2"}

\* a thread that is not inside a call
Idle == [pc |-> "idle"]

\* answers given in the session of SpecConcurrent
ConcurrentAnswers == {"Aeroshade", "Aeroshade-xl"}

\* number of calls a run of SpecConcurrent makes
MaxConcurrentCalls == 4

(***************************************************************************)
(* Specifications                                                          *)
(***************************************************************************)

Init ==
    /\ log = <<>>
    /\ cache = NoCache
    /\ csv \in Sources
    /\ rng \in 0..MaxSeed
    /\ ret = NoReturn
    /\ obs = <<NoObs, NoObs>>
    /\ inflight = [t \in Threads |-> Idle]

\* Spec: sessions are started and driven through process_answer

StartAdvisorSession ==
    /\ Calls(log) < MaxCalls
    /\ \E query \in Queries, response \in LLMResponses :
          start_advisor_session(query, response)
    /\ UNCHANGED inflight

ProcessAnswer ==
    /\ Calls(log) < MaxCalls
    /\ \E session_id \in AllSessions, answer \in Answers :
          process_answer(session_id, answer)
    /\ UNCHANGED inflight

Next == StartAdvisorSession \/ ProcessAnswer

Spec == Init /\ [][Next]_vars

\* SpecSupport: one support session, driven through process_answer

StartSupportSession ==
    /\ log = <<>>
    /\ \E query \in Queries, response \in SupportResponses :
          start_advisor_session(query, response)
    /\ UNCHANGED inflight

ProcessSupportAnswer ==
    /\ Calls(log) < MaxSupportCalls
    /\ \E answer \in SupportAnswers : process_answer(SessionIds[1], answer)
    /\ UNCHANGED inflight

NextSupport == StartSupportSession \/ ProcessSupportAnswer

SpecSupport == Init /\ [][NextSupport]_vars

\* SpecHandlers: the step handlers called directly (each is a public function
\* of the module), each for the first session id, whatever its log holds

ProcessSportFirstAnswer ==
    /\ Calls(log) < MaxHandlerCalls
    /\ \E answer \in {"strada"} : process_sport_first_answer(SessionIds[1], answer)
    /\ UNCHANGED inflight

ProcessRxFirstAnswer ==
    /\ Calls(log) < MaxHandlerCalls
    /\ \E answer \in {"strada"} : process_rx_first_answer(SessionIds[1], answer)
    /\ UNCHANGED inflight

ProcessSportSecondAnswer ==
    /\ Calls(log) < MaxHandlerCalls
    /\ \E answer \in {"strada"} : process_sport_second_answer(SessionIds[1], answer)
    /\ UNCHANGED inflight

ProcessRxSecondAnswer ==
    /\ Calls(log) < MaxHandlerCalls
    /\ \E answer \in {"strada"} : process_rx_second_answer(SessionIds[1], answer)
    /\ UNCHANGED inflight

ProcessSupportFirstAnswer ==
    /\ Calls(log) < MaxHandlerCalls
    /\ \E answer \in {"strada"} : process_support_first_answer(SessionIds[1], answer)
    /\ UNCHANGED inflight

ProcessSupportSecondAnswer ==
    /\ Calls(log) < MaxHandlerCalls
    /\ \E answer \in HandlerAnswers : process_support_second_answer(SessionIds[1], answer)
    /\ UNCHANGED inflight

ProcessSupportVariantAnswer ==
    /\ Calls(log) < MaxHandlerCalls
    /\ \E answer \in HandlerAnswers : process_support_variant_answer(SessionIds[1], answer)
    /\ UNCHANGED inflight

ProcessSupportThirdAnswer ==
    /\ Calls(log) < MaxHandlerCalls
    /\ \E answer \in {"strada"} : process_support_third_answer(SessionIds[1], answer)
    /\ UNCHANGED inflight

NextHandlers ==
    \/ StartSupportSession
    \/ ProcessSportFirstAnswer
    \/ ProcessRxFirstAnswer
    \/ ProcessSportSecondAnswer
    \/ ProcessRxSecondAnswer
    \/ ProcessSupportFirstAnswer
    \/ ProcessSupportSecondAnswer
    \/ ProcessSupportVariantAnswer
    \/ ProcessSupportThirdAnswer

SpecHandlers == Init /\ [][NextHandlers]_vars

\* SpecRead: a support session, with the readers of the log and the loader
\* of the spare-parts database called between its steps

ProcessReadAnswer ==
    /\ Calls(log) < MaxReadCalls
    /\ \E answer \in ReadAnswers : process_answer(SessionIds[1], answer)
    /\ UNCHANGED inflight

\* a caller keeps the result of a reader, next to the one it got before
Observe(op, session_id, result) ==
    obs' = <<obs[2], [op |-> op, session_id |-> session_id, log |-> log,
                      result |-> result]>>

GetFlowForSession ==
    /\ Observe("get_flow_for_session", SessionIds[1],
               get_flow_for_session(log, SessionIds[1]))
    /\ UNCHANGED <<log, cache, csv, rng, ret>>
    /\ UNCHANGED inflight

GetLastQuestionId ==
    /\ Observe("get_last_question_id", SessionIds[1],
               get_last_question_id(log, SessionIds[1]))
    /\ UNCHANGED <<log, cache, csv, rng, ret>>
    /\ UNCHANGED inflight

\* build_user_profile_from_logs leaving an event of its own in the log
BuildUserProfileFromLogs_mut ==
    /\ Observe("build_user_profile_from_logs", SessionIds[1],
               build_user_profile_from_logs(log, SessionIds[1]))
    /\ log' = log_event(log, SessionIds[1], "profile_built", [done |-> TRUE])
    /\ UNCHANGED <<cache, csv, rng, ret>>
    /\ UNCHANGED inflight

BuildUserProfileFromLogs ==
    /\ Observe("build_user_profile_from_logs", SessionIds[1],
               build_user_profile_from_logs(log, SessionIds[1]))
    /\ UNCHANGED <<log, cache, csv, rng, ret>>
    /\ UNCHANGED inflight

LoadSparePartsDb ==
    /\ \E force_reload \in BOOLEAN : cache' = load_spare_parts_db(force_reload)
    /\ UNCHANGED <<log, csv, rng, ret, obs>>
    /\ UNCHANGED inflight

NextRead ==
    \/ StartSupportSession
    \/ ProcessReadAnswer
    \/ GetFlowForSession
    \/ GetLastQuestionId
    \/ BuildUserProfileFromLogs
    \/ LoadSparePartsDb

SpecRead == Init /\ [][NextRead]_vars

\* SpecRoute: route_intent applied to any intent label, the caller keeping
\* the last two results

RouteIntent ==
    /\ \E intent_primary \in IntentInputs :
          obs' = <<obs[2], [op |-> "route_intent", intent_primary |-> intent_primary,
                            result |-> route_intent(intent_primary)]>>
    /\ UNCHANGED <<log, cache, csv, rng, ret, inflight>>

NextRoute == RouteIntent

SpecRoute == Init /\ [][NextRoute]_vars

\* SpecPure: the functions without state, applied to any input; obs[2] is
\* the call and its result

Applied(op, args, result) ==
    /\ obs' = <<NoObs, [op |-> op, args |-> args, result |-> result]>>
    /\ UNCHANGED <<log, cache, csv, rng, ret, inflight>>

Normalize ==
    \E op \in Normalizers, answer \in NormalizerInputs :
        Applied(op, <<answer>>,
            CASE op = "normalize_terrain" -> normalize_terrain(answer)
              [] op = "normalize_rx_prescription_status" ->
                    normalize_rx_prescription_status(answer)
              [] op = "normalize_rx_solution_choice" ->
                    normalize_rx_solution_choice(answer)
              [] op = "normalize_light_condition" -> normalize_light_condition(answer)
              [] op = "normalize_support_issue" -> normalize_support_issue(answer)
              [] op = "normalize_support_model" -> normalize_support_model(answer)
              [] op = "normalize_support_priority" ->
                    normalize_support_priority(answer))

\* the databases the resolvers are called with: none, the two files, and
\* one with two keys of the same length for a base name
TieDb ==
    << [model |-> "Aeroshade-xl",
        issues |-> << [issue |-> "lente-ricambio", urls |-> <<"https://shop/xl-lens">>] >>],
       [model |-> "Aeroshade-xs",
        issues |-> << [issue |-> "nasello", urls |-> <<"https://shop/xs-nose">>] >>],
       [model |-> "Aeroshade-kunken",
        issues |-> << [issue |-> "nasello", urls |-> <<"https://shop/kunken-nose">>] >>] >>

ResolverDbs ==
    {EmptyDb, TieDb, read_spare_parts_csv(FullSource), read_spare_parts_csv(RepeatedSource)}

ModelInputs ==
    {Null, "", "  ", "Aerowing", "aerowing", " aerowing ", "AEROSHADE-XL",
     "Aeroshade", "aero", "Aerowing-p", "xyz 42"}

IssueHints == {Null, "", "nasello", " Nasello ", "lente", "viti"}

ResolveModelKey ==
    \E model \in ModelInputs, db \in ResolverDbs, issue \in IssueHints :
        Applied("resolve_model_key", <<model, db, issue>>,
                resolve_model_key(model, db, issue))

\* an issue map with the given keys, in that order
IssueMap(keys) == [j \in 1..Len(keys) |-> [issue |-> keys[j], urls |-> <<"https://shop/x">>]]

IssueMaps ==
    {IssueMap(<<>>),
     IssueMap(<<"visor-kit", "nosepad-kit", "lens-regular", "fender-regular", "temple-screw">>),
     IssueMap(<<"fender-regular", "lens-regular", "nose-bridge", "pad-set">>),
     IssueMap(<<"nasello", "lente-ricambio", "kit-clip">>)}

IssueInputs ==
    {Null, "", " ", "lente", "Nasello ", "viti", "montatura", "clip", "fender",
     "lens-regular", "xl-regular", "rx_pad bridge", "ab cd", "xyz 42"}

ResolveIssueKey ==
    \E user_issue \in IssueInputs, issue_map \in IssueMaps :
        Applied("resolve_issue_key", <<user_issue, issue_map>>,
                resolve_issue_key(user_issue, issue_map))

NextPure == Normalize \/ ResolveModelKey \/ ResolveIssueKey

SpecPure == Init /\ [][NextPure]_vars

\* SpecPhrasing: the calls that draw their phrases with random.choice, and
\* one of them made twice on the same log with the generator in different
\* states.  Snapshot notes the log before the call, Rewind puts the log back
\* after it, keeps what the call appended and returned, and leaves the
\* generator in any state; the call made next is the second run.

PhrasingGuard ==
    /\ Calls(log) < MaxPhrasingCalls
    /\ obs[2].op \in {"snapshot", "first_run"} => log = obs[2].log

\* the events appended since the log was l, without the text of the messages
RECURSIVE Skeleton(_)
Skeleton(events) ==
    IF Len(events) = 0 THEN <<>>
    ELSE << IF Head(events).event_type = "assistant_message"
            THEN [Head(events) EXCEPT !.data = [text |-> "..."]]
            ELSE Head(events) >> \o Skeleton(Tail(events))

Since(l) == Skeleton(SubSeq(log, Len(l) + 1, Len(log)))

PhrasedStart ==
    /\ PhrasingGuard
    /\ \E query \in Queries, response \in PhrasingResponses :
          start_advisor_session(query, response)
    /\ UNCHANGED inflight

PhrasedAnswer ==
    /\ PhrasingGuard
    /\ \E answer \in PhrasingAnswers :
          \/ process_sport_first_answer(SessionIds[1], answer)
          \/ process_rx_first_answer(SessionIds[1], answer)
          \/ process_sport_second_answer(SessionIds[1], answer)
          \/ process_rx_second_answer(SessionIds[1], answer)
    /\ UNCHANGED inflight

Snapshot ==
    /\ obs[2].op = "none"
    /\ obs' = <<NoObs, [op |-> "snapshot", log |-> log]>>
    /\ UNCHANGED <<log, cache, csv, rng, ret, inflight>>

Rewind ==
    /\ obs[2].op = "snapshot"
    /\ log # obs[2].log
    /\ log' = obs[2].log
    /\ rng' \in 0..(RngPeriod - 1)
    /\ obs' = <<obs[2], [op |-> "first_run", log |-> obs[2].log, call |-> ret.call,
                         events |-> Since(obs[2].log),
                         assistant_message |-> ret.value.assistant_message,
                         next_question |-> ret.value.next_question]>>
    /\ UNCHANGED <<cache, csv, ret, inflight>>

NextPhrasing == PhrasedStart \/ PhrasedAnswer \/ Snapshot \/ Rewind

SpecPhrasing == Init /\ [][NextPhrasing]_vars

\* SpecDb: load_spare_parts_db called with and without force_reload, and by
\* process_support_second_answer, while the CSV file is edited between the
\* calls

LoadDb ==
    /\ \E force_reload \in BOOLEAN :
          /\ cache' = load_spare_parts_db(force_reload)
          /\ ret' = [call |-> [op |-> "load_spare_parts_db",
                               force_reload |-> force_reload],
                     value |-> cache']
    /\ UNCHANGED <<log, csv, rng, obs, inflight>>

EditCsv ==
    /\ csv' \in DbSources \ {csv}
    /\ UNCHANGED <<log, cache, rng, ret, obs, inflight>>

\* number of handler calls a run of SpecDb makes
MaxDbCalls == 1

\* a handler uses the database
UseDb ==
    /\ Calls(log) < MaxDbCalls
    /\ \E answer \in {"Aerowing", "boh"} :
          process_support_second_answer(SessionIds[1], answer)
    /\ UNCHANGED inflight

NextDb == LoadDb \/ EditCsv \/ UseDb

SpecDb == Init /\ [][NextDb]_vars

\* SpecTerminal: a support session taken to its last step by the three
\* handlers, with every priority and with and without a link in the database.

\* number of calls a run of SpecTerminal makes
MaxTerminalCalls == 4

TerminalIssues == {"nasello", "viti"}

TerminalModels == {"Aerowing", "boh"}

PriorityAnswers ==
    {"solo il ricambio", "assistenza tecnica", "subito", "quando puoi", "boh"}

TerminalFirstAnswer ==
    /\ Calls(log) < MaxTerminalCalls
    /\ get_last_question_id(log, SessionIds[1]) = "SUP_Q1"
    /\ \E answer \in TerminalIssues : process_support_first_answer(SessionIds[1], answer)
    /\ UNCHANGED inflight

TerminalSecondAnswer ==
    /\ Calls(log) < MaxTerminalCalls
    /\ get_last_question_id(log, SessionIds[1]) = "SUP_Q2"
    /\ \E answer \in TerminalModels : process_support_second_answer(SessionIds[1], answer)
    /\ UNCHANGED inflight

TerminalThirdAnswer ==
    /\ Calls(log) < MaxTerminalCalls
    /\ get_last_question_id(log, SessionIds[1]) \in {"SUP_Q1", "SUP_Q3"}
    /\ \E answer \in PriorityAnswers : process_support_third_answer(SessionIds[1], answer)
    /\ UNCHANGED inflight

NextTerminal ==
    \/ StartSupportSession
    \/ TerminalFirstAnswer
    \/ TerminalSecondAnswer
    \/ TerminalThirdAnswer

SpecTerminal == Init /\ [][NextTerminal]_vars

\* SpecLog: the log is read by the three readers while sessions are started,
\* a support question is answered and lines that are no events are appended
\* to the file (a record cut short, a line holding a bare JSON value).

\* number of calls a run of SpecLog makes
MaxLogCalls == 2

\* number of lines that are no events in the log of SpecLog
MaxCorruptLines == 2

CorruptLines == {TruncatedLine, ScalarLine}

LogReaders == {"get_flow_for_session", "get_last_question_id", "load_session_events"}

LogResponses == SupportResponses \cup {LLMFailure}

StartLoggedSession ==
    /\ Calls(log) < MaxLogCalls
    /\ \E query \in Queries, response \in LogResponses :
          start_advisor_session(query, response)
    /\ UNCHANGED inflight

AnswerLoggedSession ==
    /\ Calls(log) < MaxLogCalls
    /\ get_flow_for_session(log, SessionIds[1]) = "support_flow"
    /\ get_last_question_id(log, SessionIds[1]) = "SUP_Q1"
    /\ process_support_first_answer(SessionIds[1], "nasello")
    /\ UNCHANGED inflight

CorruptLog ==
    /\ Len(SelectSeq(log, LAMBDA line : ~IsDict(line))) < MaxCorruptLines
    /\ \E line \in CorruptLines : log' = Append(log, line)
    /\ UNCHANGED <<cache, csv, rng, ret, obs, inflight>>

ReadLog ==
    /\ \E op \in LogReaders, session_id \in AllSessions :
          obs' = <<NoObs,
                   [op |-> op, session_id |-> session_id, log |-> log,
                    result |->
                       CASE op = "get_flow_for_session" ->
                               get_flow_for_session(log, session_id)
                         [] op = "get_last_question_id" ->
                               get_last_question_id(log, session_id)
                         [] op = "load_session_events" ->
                               load_session_events(log, session_id)]>>
    /\ UNCHANGED <<log, cache, csv, rng, ret, inflight>>

NextLog == StartLoggedSession \/ AnswerLoggedSession \/ CorruptLog \/ ReadLog

SpecLog == Init /\ [][NextLog]_vars

\* SpecScore: one profile scored against one catalog entry, or one
\* recommendation selected from one catalog.

Terrains == {Null, "strada", "mtb"}

Lights == {Null, "variabile"}

SportPriorities == {Null, "protezione"}

RxChoices == {Null, "clip_in", "sport_rx", "non_so"}

RxPriorities == {Null, "campo_visivo"}

ScoreProfiles ==
    [flow_type : {"sport_flow", "rx_flow"}, terrain : Terrains,
     light_condition : Lights, sport_priority : SportPriorities,
     rx_solution_choice : RxChoices, rx_priority : RxPriorities]

ScoreEntries ==
    [id : {"entry"}, product_type : {"sport", "rx"}, rx_compatible : BOOLEAN,
     rx_modes : {{}, {"clip_in"}, {"clip_in", "sport_rx"}},
     terrain : {{}, {"strada", "gravel"}}, light : {{}, {"variabile", "stabile"}},
     sport_priorities : {{}, {"protezione", "ventilazione", "comfort"}},
     rx_priorities : {{}, {"campo_visivo", "stabilita"}}]

\* a small catalog: the two entries of the examples, a second sport entry
\* with the attributes of the first, an rx-compatible sport entry and an rx
\* entry that is not rx_compatible
CatalogEntries ==
    << [id |-> "aerotrail_photo", product_type |-> "sport", rx_compatible |-> FALSE,
        rx_modes |-> {}, terrain |-> {"strada", "gravel"}, light |-> {"variabile"},
        sport_priorities |-> {"protezione", "ventilazione", "comfort"},
        rx_priorities |-> {}],
       [id |-> "aero_rx_clip", product_type |-> "rx", rx_compatible |-> TRUE,
        rx_modes |-> {"clip_in"}, terrain |-> {"strada", "gravel"},
        light |-> {"variabile", "stabile"}, sport_priorities |-> {},
        rx_priorities |-> {"campo_visivo", "stabilita"}],
       [id |-> "aerotrail_twin", product_type |-> "sport", rx_compatible |-> FALSE,
        rx_modes |-> {}, terrain |-> {"strada", "gravel"}, light |-> {"variabile"},
        sport_priorities |-> {"protezione", "ventilazione", "comfort"},
        rx_priorities |-> {}],
       [id |-> "aerowing_rx", product_type |-> "sport", rx_compatible |-> TRUE,
        rx_modes |-> {"sport_rx"}, terrain |-> {"mtb"}, light |-> {},
        sport_priorities |-> {}, rx_priorities |-> {}],
       [id |-> "city_rx", product_type |-> "rx", rx_compatible |-> FALSE,
        rx_modes |-> {"clip_in"}, terrain |-> {}, light |-> {},
        sport_priorities |-> {}, rx_priorities |-> {"campo_visivo"}] >>

\* number of entries of a catalog
MaxCatalog == 3

\* the catalogs: up to MaxCatalog different entries in any order
Catalogs ==
    UNION {{[i \in 1..n |-> CatalogEntries[f[i]]] :
              f \in {g \in [1..n -> 1..Len(CatalogEntries)] :
                        \A a, b \in 1..n : g[a] = g[b] => a = b}} :
           n \in 0..MaxCatalog}

ScoreEntry ==
    /\ obs[2] = NoObs
    /\ \E profile \in ScoreProfiles, entry \in ScoreEntries :
          obs' = <<NoObs, [op |-> "score", profile |-> profile, entry |-> entry,
                           result |-> score(profile, entry)]>>
    /\ UNCHANGED <<log, cache, csv, rng, ret, inflight>>

Recommend ==
    /\ obs[2] = NoObs
    /\ \E profile \in ScoreProfiles, catalog \in Catalogs :
          obs' = <<NoObs, [op |-> "recommend", profile |-> profile, catalog |-> catalog,
                           scored |-> ranked(profile, catalog),
                           result |-> recommend(profile, catalog)]>>
    /\ UNCHANGED <<log, cache, csv, rng, ret, inflight>>

NextScore == ScoreEntry \/ Recommend

SpecScore == Init /\ [][NextScore]_vars

\* SpecSearch: search_products and build_product_advice called with the
\* embedding and vector-search services working, failing or finding nothing.

SearchQueries == {"", "occhiali da sole", "occhiali gravel per uscite lunghe"}

SearchEnvs ==
    [embedding : {"ok", "fails"},
     first : {"fails", "none", "performance", "lifestyle"},
     second : {"fails", "none", "performance", "lifestyle"}]

SearchProducts ==
    /\ \E query \in SearchQueries, env \in SearchEnvs :
          obs' = <<NoObs, [op |-> "search_products", query |-> query, env |-> env,
                           result |-> search_products(query, env)]>>
    /\ UNCHANGED <<log, cache, csv, rng, ret, inflight>>

BuildProductAdvice ==
    /\ \E query \in SearchQueries, env \in SearchEnvs :
          obs' = <<NoObs, [op |-> "build_product_advice", query |-> query, env |-> env,
                           result |-> build_product_advice(query, env)]>>
    /\ UNCHANGED <<log, cache, csv, rng, ret, inflight>>

NextSearch == SearchProducts \/ BuildProductAdvice

SpecSearch == Init /\ [][NextSearch]_vars

\* SpecVariant: one support session whose SUP_Q2 answers name a model family
\* with several variants, with and without a dash in the answer, or a family
\* with one variant

VariantAnswers == {"il mio-aeroshade", "Aeroshade", "Aeroshade-xl", "aerotrail", "boh"}

\* number of calls a run of SpecVariant makes
MaxVariantCalls == 4

ProcessVariantAnswer ==
    /\ Calls(log) < MaxVariantCalls
    /\ \E answer \in VariantAnswers : process_answer(SessionIds[1], answer)
    /\ UNCHANGED inflight

NextVariant == StartSupportSession \/ ProcessVariantAnswer

SpecVariant == Init /\ [][NextVariant]_vars

\* SpecReload: load_spare_parts_db called by two threads at once, one with
\* force_reload=True and one without, while the CSV file is replaced.  Every
\* read and every write of load_spare_parts_db._cache is a step of its own,
\* and so is every row of the file; the other thread may take any of its
\* steps in between.

\* load_spare_parts_db._cache after `load_spare_parts_db._cache = None`
NoneCache == <<[model |-> Null, issues |-> <<"None">>]>>

\* the contents spare_parts_links.csv takes in SpecReload
ReloadSources == {FullSource, RepeatedSource, MissingSource}

\* a thread inside load_spare_parts_db
Loading(t, pc, db, rows) ==
    inflight' = [inflight EXCEPT ![t] =
        [pc |-> pc, force_reload |-> inflight[t].force_reload,
         db |-> db, rows |-> rows]]

\* `return value`
ReturnDb(t, value) ==
    /\ ret' = [call |-> [op |-> "load_spare_parts_db",
                         force_reload |-> inflight[t].force_reload, thread |-> t],
               value |-> value]
    /\ inflight' = [inflight EXCEPT ![t] = Idle]

CallLoad(t) ==
    /\ inflight[t] = Idle
    /\ inflight' = [inflight EXCEPT ![t] =
          [pc |-> "hasattr", force_reload |-> (t = "t1"),
           db |-> EmptyDb, rows |-> <<>>]]
    /\ UNCHANGED <<log, cache, csv, rng, ret, obs>>

\* if not hasattr(load_spare_parts_db, "_cache")
HasAttr(t) ==
    /\ inflight[t].pc = "hasattr"
    /\ Loading(t, IF cache = NoCache THEN "init" ELSE "check", EmptyDb, <<>>)
    /\ UNCHANGED <<log, cache, csv, rng, ret, obs>>

\* load_spare_parts_db._cache = None
InitCache(t) ==
    /\ inflight[t].pc = "init"
    /\ cache' = NoneCache
    /\ Loading(t, "check", EmptyDb, <<>>)
    /\ UNCHANGED <<log, csv, rng, ret, obs>>

\* if load_spare_parts_db._cache is not None and not force_reload
CheckCache(t) ==
    /\ inflight[t].pc = "check"
    /\ Loading(t, IF cache # NoneCache /\ ~inflight[t].force_reload
                  THEN "hit" ELSE "open", EmptyDb, <<>>)
    /\ UNCHANGED <<log, cache, csv, rng, ret, obs>>

\* return load_spare_parts_db._cache
ReturnCached(t) ==
    /\ inflight[t].pc = "hit"
    /\ ReturnDb(t, cache)
    /\ UNCHANGED <<log, cache, csv, rng, obs>>

\* the file is opened and its header read; without the file, without a
\* header or without one of the three columns the empty database is stored
OpenCsv(t) ==
    /\ inflight[t].pc = "open"
    /\ IF \/ ~csv.exists
          \/ Len(csv.fieldnames) = 0
          \/ ~({"model", "issue", "url"} \subseteq
                 {Lower(Strip(h)) : h \in Range(csv.fieldnames)})
       THEN /\ cache' = EmptyDb
            /\ ReturnDb(t, EmptyDb)
            /\ UNCHANGED <<log, csv, rng, obs>>
       ELSE /\ Loading(t, "rows", EmptyDb, csv.rows)
            /\ UNCHANGED <<log, cache, csv, rng, ret, obs>>

\* one iteration of `for row in reader`, on the local db
AddRow(t) ==
    /\ inflight[t].pc = "rows"
    /\ inflight[t].rows # <<>>
    /\ Loading(t, "rows", add_row(inflight[t].db, Head(inflight[t].rows)),
               Tail(inflight[t].rows))
    /\ UNCHANGED <<log, cache, csv, rng, ret, obs>>

\* except Exception: the file cannot be read to its end
ReadFails(t) ==
    /\ inflight[t].pc = "rows"
    /\ inflight[t].rows # <<>>
    /\ cache' = EmptyDb
    /\ ReturnDb(t, EmptyDb)
    /\ UNCHANGED <<log, csv, rng, obs>>

\* load_spare_parts_db._cache = db; return db
Publish(t) ==
    /\ inflight[t].pc = "rows"
    /\ inflight[t].rows = <<>>
    /\ cache' = inflight[t].db
    /\ ReturnDb(t, inflight[t].db)
    /\ UNCHANGED <<log, csv, rng, obs>>

\* the file is replaced
ReplaceCsv ==
    /\ csv' \in ReloadSources \ {csv}
    /\ UNCHANGED <<log, cache, rng, ret, obs, inflight>>

NextReload ==
    \/ \E t \in Threads : CallLoad(t)
    \/ \E t \in Threads : HasAttr(t)
    \/ \E t \in Threads : InitCache(t)
    \/ \E t \in Threads : CheckCache(t)
    \/ \E t \in Threads : ReturnCached(t)
    \/ \E t \in Threads : OpenCsv(t)
    \/ \E t \in Threads : AddRow(t)
    \/ \E t \in Threads : ReadFails(t)
    \/ \E t \in Threads : Publish(t)
    \/ ReplaceCsv

SpecReload == Init /\ [][NextReload]_vars

\* SpecChunk: chunk_text (backend/ingestion/ingest_scicon_full.py) run on
\* short texts, one iteration of its while loop at a time

\* length of the longest text
MaxTextLen == 3

\* largest max_chars
MaxChars == 3

\* number of chunks kept of the list the loop builds
MaxChunks == 4

RECURSIVE TextsOfLen(_)
TextsOfLen(n) ==
    IF n = 0 THEN {""}
    ELSE {t \o c : t \in TextsOfLen(n - 1), c \in {"a", " "}}

Texts == UNION {TextsOfLen(n) : n \in 0..MaxTextLen}

\* the state of a call of chunk_text: its arguments and its locals
ChunkState(text, max_chars, overlap, pc, start, end, chunks) ==
    [call |-> [op |-> "chunk_text", text |-> text, max_chars |-> max_chars,
               overlap |-> overlap],
     value |-> [pc |-> pc, start |-> start, end |-> end, chunks |-> chunks]]

\* the body of the while loop:
\*   end = min(start + max_chars, length); chunk = text[start:end].strip()
\*   if chunk: chunks.append(chunk)
\*   start = end - overlap; if start < 0: start = 0; if start >= length: break
chunk_iteration(text, max_chars, overlap, start, chunks) ==
    LET length == Len(text)
        end == IF start + max_chars < length THEN start + max_chars ELSE length
        chunk == Strip(SubSeq(text, start + 1, end))
        chunks1 == IF chunk # "" THEN Append(chunks, chunk) ELSE chunks
        start1 == IF end - overlap < 0 THEN 0 ELSE end - overlap
    IN [start |-> start1, end |-> end, chunks |-> chunks1,
        pc |-> IF start1 >= length THEN "done" ELSE "loop"]

\* chunk_text(text, max_chars, overlap) up to its loop
CallChunkText ==
    /\ ret.call.op = "chunk_text" => ret.value.pc = "done"
    /\ \E text \in Texts, max_chars \in 1..MaxChars :
       \E overlap \in 0..(max_chars - 1) :
          ret' = IF text = ""
                 THEN ChunkState(text, max_chars, overlap, "done", 0, 0, <<>>)
                 ELSE ChunkState(text, max_chars, overlap, "loop", 0, 0, <<>>)
    /\ UNCHANGED <<log, cache, csv, rng, obs, inflight>>

\* one iteration of `while start < length`; of the list only the first
\* MaxChunks chunks are kept.  An iteration that changes no local leaves the
\* state as it is: the loop goes on running in that state.
ChunkIteration ==
    /\ ret.call.op = "chunk_text"
    /\ ret.value.pc = "loop"
    /\ LET c == ret.call
           next == chunk_iteration(c.text, c.max_chars, c.overlap,
                                   ret.value.start, ret.value.chunks)
       IN ret' = ChunkState(c.text, c.max_chars, c.overlap, next.pc, next.start,
                    next.end, SubSeq(next.chunks, 1,
                        IF Len(next.chunks) < MaxChunks THEN Len(next.chunks)
                        ELSE MaxChunks))
    /\ UNCHANGED <<log, cache, csv, rng, obs, inflight>>

NextChunk == CallChunkText \/ ChunkIteration

\* the loop keeps running: no iteration waits for anything
SpecChunk == Init /\ [][NextChunk]_vars /\ WF_vars(ChunkIteration)

\* SpecConcurrent: one support session answered by two threads at once.  A
\* call is two steps: the reads of the flow and of the last question id, with
\* which process_answer begins, and then the handler these chose; the other
\* thread may take any of its steps in between.

ReadSession(t) ==
    /\ log # <<>>
    /\ inflight[t] = Idle
    /\ Calls(log) + Cardinality({u \in Threads : inflight[u] # Idle})
          < MaxConcurrentCalls
    /\ \E answer \in ConcurrentAnswers :
          inflight' = [inflight EXCEPT ![t] =
              [pc |-> "dispatch", session_id |-> SessionIds[1], answer |-> answer,
               flow_type |-> get_flow_for_session(log, SessionIds[1]),
               last_qid |-> get_last_question_id(log, SessionIds[1])]]
    /\ UNCHANGED <<log, cache, csv, rng, ret, obs>>

RunHandler(t) ==
    /\ inflight[t] # Idle
    /\ dispatch_answer(inflight[t].session_id, inflight[t].answer,
                       inflight[t].flow_type, inflight[t].last_qid)
    /\ inflight' = [inflight EXCEPT ![t] = Idle]

NextConcurrent ==
    \/ StartSupportSession
    \/ \E t \in Threads : ReadSession(t)
    \/ \E t \in Threads : RunHandler(t)

SpecConcurrent == Init /\ [][NextConcurrent]_vars

(***************************************************************************)
(* Properties                                                              *)
(***************************************************************************)

\* the events a step appended
Appended == SubSeq(log', Len(log) + 1, Len(log'))

\* the step is a call of process_answer (or of a handler) for session_id
AnswerStep(session_id) ==
    /\ log' # log
    /\ ret'.call.op # "start_advisor_session"
    /\ ret'.call.session_id = session_id

HasAnswerFor(events, session_id, qid) ==
    \E i \in 1..Len(events) :
        /\ events[i].session_id = session_id
        /\ events[i].event_type = "answer_given"
        /\ events[i].data.question_id = qid

\* a call returned a next question / a recommendation
ReturnsQuestion(r) == "next_question" \in DOMAIN r.value
ReturnsRecommendation(r) == "recommendation" \in DOMAIN r.value

\* the text of each question id
QuestionText(qid) ==
    CASE qid = "Q1" -> Q1_TEXT
      [] qid = "Q2" -> Q2_TEXT
      [] qid = "Q3" -> Q3_TEXT
      [] qid = "Q1_RX" -> Q1_RX_TEXT
      [] qid = "Q2_RX" -> Q2_RX_TEXT
      [] qid = "Q3_RX" -> Q3_RX_TEXT
      [] qid = "SUP_Q1" -> SUP_Q1_TEXT
      [] qid = "SUP_Q2" -> SUP_Q2_TEXT
      [] qid = "SUP_Q2_VARIANT" -> SUP_Q2_VARIANT_TEXT
      [] qid = "SUP_Q3" -> SUP_Q3_TEXT

\* in a session of the given flow whose last question is q, an answer is
\* logged for q and nextq is asked
Advances(session_id, flow, q, nextq) ==
    (/\ AnswerStep(session_id)
     /\ get_flow_for_session(log, session_id) = flow
     /\ get_last_question_id(log, session_id) = q)
    => /\ HasAnswerFor(Appended, session_id, q)
       /\ get_last_question_id(log', session_id) = nextq
       /\ ReturnsQuestion(ret')
       /\ ret'.value.next_question = QuestionText(nextq)

\* in a session of the given flow whose last question is q, an answer is
\* logged for q and a recommendation is returned, no question is asked
Recommends(session_id, flow, q) ==
    (/\ AnswerStep(session_id)
     /\ get_flow_for_session(log, session_id) = flow
     /\ get_last_question_id(log, session_id) = q)
    => /\ HasAnswerFor(Appended, session_id, q)
       /\ ReturnsRecommendation(ret')
       /\ ~ReturnsQuestion(ret')

\* C1: in a sport_flow session process_answer advances Q1 -> Q2 -> Q3 ->
\* recommendation, logging the answer for the question last asked, and in an
\* rx_flow session Q1_RX -> Q2_RX -> Q3_RX -> recommendation.
C1_SportAndRxAdvance ==
    [][\A session_id \in AllSessions :
          /\ Advances(session_id, "sport_flow", "Q1", "Q2")
          /\ Advances(session_id, "sport_flow", "Q2", "Q3")
          /\ Recommends(session_id, "sport_flow", "Q3")
          /\ Advances(session_id, "rx_flow", "Q1_RX", "Q2_RX")
          /\ Advances(session_id, "rx_flow", "Q2_RX", "Q3_RX")
          /\ Recommends(session_id, "rx_flow", "Q3_RX")]_vars

\* the pairs (flow, last question id) process_answer has a handler for
HasHandler(flow, qid) ==
    flow = "support_flow" /\ qid \in {"SUP_Q1", "SUP_Q2", "SUP_Q2_VARIANT", "SUP_Q3"}

\* C3: every process_answer call returns a next question or a recommendation;
\* for a pair (flow, last question id) without handler it appends exactly one
\* event, a question_asked for the first question of the flow, and returns
\* that question.
C3_DispatchIsTotal ==
    [][\A session_id \in AllSessions :
          AnswerStep(session_id) =>
            LET flow == get_flow_for_session(log, session_id)
                qid == get_last_question_id(log, session_id)
            IN /\ ReturnsQuestion(ret') \/ ReturnsRecommendation(ret')
               /\ ~HasHandler(flow, qid) =>
                    /\ Appended =
                         << QuestionAsked(session_id, first_question_id(flow),
                                          QuestionText(first_question_id(flow))) >>
                    /\ ReturnsQuestion(ret')
                    /\ ret'.value.next_question =
                         QuestionText(first_question_id(flow))]_vars

\* process_answer restarted a compare_flow session, and a session id without
\* events (last question id null) has been answered too
C3_Witness ==
    /\ ret.call.op = "process_answer"
    /\ get_flow_for_session(log, ret.call.session_id) = "compare_flow"
    /\ \E i \in 1..Len(log) : log[i].session_id = UnknownSession

IsPrefix(s, t) == Len(s) <= Len(t) /\ SubSeq(t, 1, Len(s)) = s

\* C4: the log before a call is a prefix of the log after it.
C4_AppendOnly == [][IsPrefix(log, log')]_vars

\* two sessions have events in the log and an answer has been processed
C4_Witness ==
    /\ ret.call.op # "start_advisor_session"
    /\ \E i, j \in 1..Len(log) :
          log[i].session_id = SessionIds[1] /\ log[j].session_id = SessionIds[2]
    /\ \E i \in 1..Len(log) : log[i].event_type = "answer_given"

\* positions of the events of a type that belong to a session
EventsOf(session_id, event_type) ==
    {i \in 1..Len(log) : /\ log[i].session_id = session_id
                         /\ log[i].event_type = event_type}

Last(S) == CHOOSE i \in S : \A j \in S : j <= i

\* C5: get_flow_for_session is the flow of the session's last flow_detected
\* event (sport_flow without one), get_last_question_id the question id of
\* its last question_asked event (null without one), and neither depends on
\* the events of other sessions.
C5_ResolversReadLastEvent ==
    \A session_id \in AllSessions :
        LET flows == EventsOf(session_id, "flow_detected")
            questions == EventsOf(session_id, "question_asked")
            own == load_session_events(log, session_id)
        IN /\ get_flow_for_session(log, session_id) =
                IF flows = {} THEN "sport_flow" ELSE log[Last(flows)].data.flow
           /\ get_last_question_id(log, session_id) =
                IF questions = {} THEN Null
                ELSE log[Last(questions)].data.question_id
           /\ get_flow_for_session(log, session_id) =
                get_flow_for_session(own, session_id)
           /\ get_last_question_id(log, session_id) =
                get_last_question_id(own, session_id)

\* two sessions of different flows, the first with two questions asked, and
\* the last question of the log was asked in the second
C5_Witness ==
    /\ get_flow_for_session(log, SessionIds[1]) = "support_flow"
    /\ get_flow_for_session(log, SessionIds[2]) = "rx_flow"
    /\ get_last_question_id(log, SessionIds[1]) = "SUP_Q2"
    /\ get_last_question_id(log, SessionIds[2]) = "Q1_RX"
    /\ log[Len(log)].session_id = SessionIds[2]

\* the order of the support questions; 0 before any of them is asked
Rank(qid) ==
    CASE qid = "SUP_Q1" -> 1
      [] qid = "SUP_Q2" -> 2
      [] qid = "SUP_Q2_VARIANT" -> 3
      [] qid = "SUP_Q3" -> 4
      [] OTHER -> 0

\* the events of l before position i hold an answer of the session to qid
AnsweredBefore(l, i, session_id, qid) ==
    \E j \in 1..(i - 1) :
        /\ l[j].session_id = session_id
        /\ l[j].event_type = "answer_given"
        /\ l[j].data.question_id = qid

\* C2: in a support session driven by process_answer the last asked question
\* never moves backward in SUP_Q1 < SUP_Q2 < SUP_Q2_VARIANT < SUP_Q3, SUP_Q3
\* is asked only after answers to SUP_Q1 and SUP_Q2 are logged, and the
\* answer to SUP_Q3 returns a recommendation and no next question.
C2_SupportFlowMovesForward ==
    [][LET session_id == SessionIds[1]
           before == get_last_question_id(log, session_id)
           after == get_last_question_id(log', session_id)
       IN get_flow_for_session(log', session_id) = "support_flow" =>
          /\ Rank(after) >= Rank(before)
          /\ Rank(after) >= 1
          /\ \A i \in (Len(log) + 1)..Len(log') :
                (log'[i].event_type = "question_asked"
                    /\ log'[i].data.question_id = "SUP_Q3")
                => /\ AnsweredBefore(log', i, session_id, "SUP_Q1")
                   /\ AnsweredBefore(log', i, session_id, "SUP_Q2")
          /\ (AnswerStep(session_id) /\ before = "SUP_Q3")
                => /\ ReturnsRecommendation(ret')
                   /\ ~ReturnsQuestion(ret')
                   /\ HasAnswerFor(Appended, session_id, "SUP_Q3")]_vars

\* the support session answered SUP_Q1 and SUP_Q2, was asked for the variant,
\* answered SUP_Q3 and got its recommendation
C2_Witness ==
    /\ ReturnsRecommendation(ret)
    /\ \E i \in 1..Len(log) :
          /\ log[i].event_type = "question_asked"
          /\ log[i].data.question_id = "SUP_Q2_VARIANT"
    /\ get_last_question_id(log, SessionIds[1]) = "SUP_Q3"
    /\ HasAnswerFor(log, SessionIds[1], "SUP_Q1")
    /\ HasAnswerFor(log, SessionIds[1], "SUP_Q2")
    /\ HasAnswerFor(log, SessionIds[1], "SUP_Q3")

\* the two results a caller holds come from the same reader, for the same
\* session, on the same log
SameRead == /\ obs[1].op = obs[2].op
            /\ obs[1].op # "none"
            /\ obs[1].session_id = obs[2].session_id
            /\ obs[1].log = obs[2].log

NonTerminalHandlers ==
    {"process_sport_first_answer", "process_rx_first_answer",
     "process_sport_second_answer", "process_rx_second_answer",
     "process_support_first_answer", "process_support_second_answer",
     "process_support_variant_answer"}

HandlerQuestion(op) ==
    CASE op = "process_sport_first_answer" -> "Q1"
      [] op = "process_rx_first_answer" -> "Q1_RX"
      [] op = "process_sport_second_answer" -> "Q2"
      [] op = "process_rx_second_answer" -> "Q2_RX"
      [] op = "process_support_first_answer" -> "SUP_Q1"
      [] op = "process_support_second_answer" -> "SUP_Q2"
      [] op = "process_support_variant_answer" -> "SUP_Q2_VARIANT"

\* C7: every call of a non-terminal step handler appends, for its session and
\* in this order, an answer_given event with the id of the question answered,
\* the raw and the normalized answer, then an assistant_message event, then
\* exactly one question_asked event, the last one, for the question returned.
C7_HandlersLogInOrder ==
    [][(log' # log /\ ret'.call.op \in NonTerminalHandlers) =>
        LET a == Appended
            n == Len(a)
            questions == {i \in 1..n : a[i].event_type = "question_asked"}
            messages == {i \in 1..n : a[i].event_type = "assistant_message"}
        IN /\ \A i \in 1..n : a[i].session_id = ret'.call.session_id
           /\ a[1].event_type = "answer_given"
           /\ a[1].data.question_id = HandlerQuestion(ret'.call.op)
           /\ a[1].data.raw_answer = ret'.call.answer
           /\ Get(a[1].data, "normalized") # Null
           /\ messages # {}
           /\ \A m \in messages : 1 < m /\ m < n
           /\ questions = {n}
           /\ ReturnsQuestion(ret')
           /\ ~ReturnsRecommendation(ret')
           /\ a[n].data.text = ret'.value.next_question
           /\ a[n].data.text = QuestionText(a[n].data.question_id)]_vars

\* the variant handler recognised the variant typed and asked SUP_Q3
C7_Witness ==
    /\ ret.call.op = "process_support_variant_answer"
    /\ ret.value.next_question = SUP_Q3_TEXT
    /\ Len(log) >= 5
    /\ log[Len(log) - 4].event_type = "answer_given"
    /\ log[Len(log) - 4].data.question_id = "SUP_Q2_VARIANT"

\* the answer is empty or one of the phrases for "I don't know"
IDontKnow(answer) ==
    LET a == Lower(Strip(OrEmpty(answer)))
    IN \/ a = ""
       \/ a \in {"non so", "boh", "non saprei", "non ricordo"}
       \/ Contains(a, "non lo so")
       \/ Contains(a, "non so la variante")

\* the step answers SUP_Q2 in a support session
AnswersSupQ2(session_id) ==
    /\ AnswerStep(session_id)
    /\ get_flow_for_session(log, session_id) = "support_flow"
    /\ get_last_question_id(log, session_id) = "SUP_Q2"

AppendedAsks(qid) ==
    \E i \in 1..Len(Appended) :
        /\ Appended[i].event_type = "question_asked"
        /\ Appended[i].data.question_id = qid

\* C8: a SUP_Q2 answer that is empty or an "I don't know" phrase is recorded
\* with the model modello_non_specificato, logs support_variant_unknown with
\* unknown = true and is followed by SUP_Q3, never by SUP_Q2_VARIANT,
\* whatever the spare-parts database holds.
C8_UnknownVariantSkipsDisambiguation ==
    [][\A session_id \in AllSessions :
          (AnswersSupQ2(session_id) /\ IDontKnow(ret'.call.answer)) =>
            /\ Appended[1] = AnswerGiven(session_id, "SUP_Q2", ret'.call.answer,
                                         "modello_non_specificato")
            /\ \E i \in 1..Len(Appended) :
                  Appended[i] = VariantUnknown(session_id, TRUE, ret'.call.answer)
            /\ ~AppendedAsks("SUP_Q2_VARIANT")
            /\ get_last_question_id(log', session_id) = "SUP_Q3"
            /\ ret'.value.next_question = SUP_Q3_TEXT]_vars

\* the user named a model with several variants in the database and said not
\* to know the variant
C8_Witness ==
    /\ ret.call.op = "process_support_second_answer"
    /\ ret.call.answer = "Aeroshade non lo so"
    /\ Len(SelectKeys(Keys(cache), "aeroshade")) > 1
    /\ get_last_question_id(log, ret.call.session_id) = "SUP_Q3"

\* C9: after a SUP_Q2 answer the handler treats as unknown, the profile
\* rebuilt from the log has support_model = modello_non_specificato and
\* support_variant_unknown = true.
C9_ProfileKeepsUnknownVariant ==
    \A session_id \in AllSessions :
        (/\ ret.call.op = "process_support_second_answer"
         /\ ret.call.session_id = session_id
         /\ IDontKnow(ret.call.answer))
        => LET profile == build_user_profile_from_logs(log, session_id)
           IN /\ profile.support_model = "modello_non_specificato"
              /\ profile.support_variant_unknown = TRUE

\* the keys of the database that start with the base model name of an answer
MatchingKeys(db, answer) ==
    {k \in Range(Keys(db)) :
        StartsWith(Lower(k), Lower(normalize_support_model(Strip(OrEmpty(answer)))))}

IsExactKey(db, answer) ==
    \E k \in Range(Keys(db)) : Lower(k) = Lower(Strip(OrEmpty(answer)))

\* the lists that hold every element of S once, in non-decreasing length
ListsByLength(S) ==
    {vs \in [1..Cardinality(S) -> S] :
        /\ Range(vs) = S
        /\ \A i \in 1..(Len(vs) - 1) : Len(vs[i]) <= Len(vs[i + 1])}

\* the step answers SUP_Q2 with a text that is no key of the database, and
\* several keys start with its base model name
SeveralVariants(session_id) ==
    /\ AnswersSupQ2(session_id)
    /\ ~IsExactKey(cache', ret'.call.answer)
    /\ Cardinality(MatchingKeys(cache', ret'.call.answer)) > 1

\* the step asks SUP_Q2_VARIANT, lists the matching keys by length and logs
\* the base model name only: one answer_given, no support_variant_unknown
AsksForVariant(session_id) ==
    LET answer == ret'.call.answer
        base_model == normalize_support_model(Strip(OrEmpty(answer)))
    IN /\ get_last_question_id(log', session_id) = "SUP_Q2_VARIANT"
       /\ ret'.value.next_question = SUP_Q2_VARIANT_TEXT
       /\ \E vs \in ListsByLength(MatchingKeys(cache', answer)) :
             ret'.value.assistant_message = ask_variant_message(base_model, vs)
       /\ Appended =
            << AnswerGiven(session_id, "SUP_Q2", answer, base_model),
               AssistantMessage(session_id, ret'.value.assistant_message),
               QuestionAsked(session_id, "SUP_Q2_VARIANT", SUP_Q2_VARIANT_TEXT) >>

\* C10, as stated: whenever the SUP_Q2 answer is no exact database key and
\* more than one key starts with the base model name, the handler asks
\* SUP_Q2_VARIANT, lists every matching key in non-decreasing length order and
\* records no variant as the resolved model.
C10_AsksVariantWheneverSeveralMatch ==
    [][\A session_id \in AllSessions :
          SeveralVariants(session_id) => AsksForVariant(session_id)]_vars

\* C10, amended: the same for an answer that is not empty and no "I don't
\* know" phrase; the handler then logs the base model name alone, and no
\* support_variant_unknown event.
C10_AsksVariantUnlessUnknown ==
    [][\A session_id \in AllSessions :
          (SeveralVariants(session_id) /\ ~IDontKnow(ret'.call.answer))
            => AsksForVariant(session_id)]_vars

\* "Aeroshade" was answered with Aeroshade-xl and Aeroshade-kunken in the
\* database, and both were listed, the shorter first
C10_Witness ==
    /\ ret.call.op = "process_support_second_answer"
    /\ ret.call.answer = "Aeroshade"
    /\ get_last_question_id(log, ret.call.session_id) = "SUP_Q2_VARIANT"
    /\ ret.value.assistant_message =
          ask_variant_message("Aeroshade", <<"Aeroshade-xl", "Aeroshade-kunken">>)

\* the variants listed in the last message the assistant sent to the session
PresentedVariants(session_id) ==
    LET msgs == EventsOf(session_id, "assistant_message")
    IN IF msgs = {} THEN {}
       ELSE {k \in Range(Keys(cache)) :
                Contains(log[Last(msgs)].data.text \o "\n", "- " \o k \o "\n")}

\* the step answers SUP_Q2_VARIANT in a support session
AnswersVariant(session_id) ==
    /\ AnswerStep(session_id)
    /\ get_flow_for_session(log, session_id) = "support_flow"
    /\ get_last_question_id(log, session_id) = "SUP_Q2_VARIANT"

\* C11: in state SUP_Q2_VARIANT an answer leads to SUP_Q3 only if it equals,
\* ignoring case, one of the variants that were presented, and that variant
\* is then the profile's support_model; any other answer leaves the last
\* question at SUP_Q2_VARIANT and the profile's support_model unchanged.
C11_VariantMustBePresented ==
    [][\A session_id \in AllSessions :
          AnswersVariant(session_id) =>
            LET raw_low == Lower(Strip(OrEmpty(ret'.call.answer)))
                matched == {k \in PresentedVariants(session_id) :
                                Lower(k) = raw_low}
                before == build_user_profile_from_logs(log, session_id)
                after == build_user_profile_from_logs(log', session_id)
            IN IF matched # {}
               THEN /\ get_last_question_id(log', session_id) = "SUP_Q3"
                    /\ after.support_model \in matched
               ELSE /\ get_last_question_id(log', session_id) = "SUP_Q2_VARIANT"
                    /\ after.support_model = before.support_model]_vars

\* the key of the database that equals the answer, ignoring case
ExactKey(db, answer) ==
    CHOOSE k \in Range(Keys(db)) : Lower(k) = Lower(Strip(OrEmpty(answer)))

\* C12: when the SUP_Q2 answer equals a key of the spare-parts database,
\* ignoring case, the handler logs answer_given with that key as the
\* normalized model and asks SUP_Q3 next, without a variant prompt, even if
\* other keys share the base name.
C12_ExactKeyIsTakenAsIs ==
    [][\A session_id \in AllSessions :
          (AnswersSupQ2(session_id) /\ IsExactKey(cache', ret'.call.answer)) =>
            /\ Appended[1] = AnswerGiven(session_id, "SUP_Q2", ret'.call.answer,
                                         ExactKey(cache', ret'.call.answer))
            /\ \A i \in 2..Len(Appended) : Appended[i].event_type # "answer_given"
            /\ ~AppendedAsks("SUP_Q2_VARIANT")
            /\ get_last_question_id(log', session_id) = "SUP_Q3"
            /\ ret'.value.next_question = SUP_Q3_TEXT]_vars

\* "Aeroshade-XL " was answered to SUP_Q2 with Aeroshade-xl and
\* Aeroshade-kunken in the database, and SUP_Q3 was asked
C12_Witness ==
    /\ ret.call.op = "process_support_second_answer"
    /\ ret.call.answer = "Aeroshade-XL "
    /\ Cardinality(MatchingKeys(cache, ret.call.answer)) > 1
    /\ log[Len(log) - 3] = AnswerGiven(ret.call.session_id, "SUP_Q2",
                                        "Aeroshade-XL ", "Aeroshade-xl")
    /\ get_last_question_id(log, ret.call.session_id) = "SUP_Q3"

\* C13: when the SUP_Q2 answer is no exact key and exactly one key of the
\* database starts with its base model name, the profile rebuilt from the
\* log has that key as support_model and SUP_Q3 is the question asked.
C13_SingleVariantIsResolved ==
    \A session_id \in AllSessions :
        (/\ ret.call.op = "process_support_second_answer"
         /\ ret.call.session_id = session_id
         /\ ~IsExactKey(cache, ret.call.answer)
         /\ Cardinality(MatchingKeys(cache, ret.call.answer)) = 1)
        => /\ build_user_profile_from_logs(log, session_id).support_model
                \in MatchingKeys(cache, ret.call.answer)
           /\ get_last_question_id(log, session_id) = "SUP_Q3"

\* the answer_given event at position i of l is followed by another one of
\* the same session for the same question id
Overwritten(l, i, session_id) ==
    /\ l[i].session_id = session_id
    /\ l[i].event_type = "answer_given"
    /\ \E j \in (i + 1)..Len(l) :
          /\ l[j].session_id = session_id
          /\ l[j].event_type = "answer_given"
          /\ l[j].data.question_id = l[i].data.question_id

\* the log without the answers of the session that a later answer to the
\* same question id follows
RECURSIVE LastAnswersFrom(_, _, _)
LastAnswersFrom(l, i, session_id) ==
    IF i > Len(l) THEN <<>>
    ELSE (IF Overwritten(l, i, session_id) THEN <<>> ELSE <<l[i]>>)
            \o LastAnswersFrom(l, i + 1, session_id)

LastAnswers(l, session_id) == LastAnswersFrom(l, 1, session_id)

\* C14: the profile is last-write-wins per question id: it is the profile of
\* the log that keeps, for each question id, only the last answer_given event
\* of the session, so earlier answers to the same question have no effect.
C14_ProfileIsLastWriteWins ==
    \A session_id \in AllSessions :
        build_user_profile_from_logs(log, session_id) =
            build_user_profile_from_logs(LastAnswers(log, session_id), session_id)

\* positions of the session's answers to a question id
AnswersTo(session_id, qid) ==
    {i \in EventsOf(session_id, "answer_given") : log[i].data.question_id = qid}

\* the value an answer_given event carries: its normalized value, or the
\* raw answer normalized again when that is missing
LoggedValue(ev) ==
    LET qid == ev.data.question_id
        raw == Strip(OrEmpty(Get(ev.data, "raw_answer")))
        normalized == Strip(OrEmpty(Get(ev.data, "normalized")))
    IN IF normalized # "" THEN normalized
       ELSE CASE qid = "SUP_Q1" -> normalize_support_issue(raw)
              [] qid = "SUP_Q2" -> normalize_support_model(raw)
              [] qid = "SUP_Q3" -> normalize_support_priority(raw)

\* the profile field that belongs to a question id
SupportField(profile, qid) ==
    CASE qid = "SUP_Q1" -> profile.support_issue
      [] qid = "SUP_Q2" -> profile.support_model
      [] qid = "SUP_Q3" -> profile.support_priority

\* C15: for every question id the profile builder recognizes, the profile
\* field is the normalized value logged in the session's (last) answer_given
\* event for it, the raw answer being normalized again only when the logged
\* normalized value is missing.
C15_ProfileTakesLoggedNormalized ==
    \A session_id \in AllSessions : \A qid \in {"SUP_Q1", "SUP_Q2", "SUP_Q3"} :
        AnswersTo(session_id, qid) # {} =>
            SupportField(build_user_profile_from_logs(log, session_id), qid) =
                LoggedValue(log[Last(AnswersTo(session_id, qid))])

\* the profile field that belongs to a question of the sport and RX flows
AdvisorField(profile, qid) ==
    CASE qid = "Q1" -> profile.terrain
      [] qid = "Q2" -> profile.light_condition
      [] qid = "Q3" -> profile.sport_priority
      [] qid = "Q1_RX" -> profile.rx_prescription_status
      [] qid = "Q2_RX" -> profile.rx_solution_choice
      [] qid = "Q3_RX" -> profile.rx_priority

\* C16: once an answer to Q1, Q2, Q3, Q1_RX, Q2_RX or Q3_RX is logged, the
\* profile rebuilt from the log has the normalized answer in terrain,
\* light_condition, sport_priority, rx_prescription_status,
\* rx_solution_choice or rx_priority; "strada" answered to Q1 gives
\* terrain = "strada".
C16_ProfileHasSportAndRxAnswers ==
    \A session_id \in AllSessions :
        \A qid \in {"Q1", "Q2", "Q3", "Q1_RX", "Q2_RX", "Q3_RX"} :
            AnswersTo(session_id, qid) # {} =>
                AdvisorField(build_user_profile_from_logs(log, session_id), qid) =
                    log[Last(AnswersTo(session_id, qid))].data.normalized

\* what the readers derive for a session
Derived(l, session_id) ==
    << get_flow_for_session(l, session_id),
       get_last_question_id(l, session_id),
       build_user_profile_from_logs(l, session_id) >>

\* C17: a start_advisor_session or process_answer call for one session
\* leaves the flow, the last question id and the profile of every other
\* session unchanged, also when the calls of two sessions interleave.
C17_SessionsAreIsolated ==
    [][\A a \in AllSessions :
          (log' # log /\ ret'.call.session_id = a) =>
            \A b \in AllSessions \ {a} : Derived(log', b) = Derived(log, b)]_vars

\* two sessions with interleaved calls: the first started and answered, then
\* the second started, then the first answered again
C17_Witness ==
    /\ Len(log) > 0
    /\ log[Len(log)].session_id = SessionIds[1]
    /\ Cardinality(EventsOf(SessionIds[1], "answer_given")) >= 2
    /\ \E i \in EventsOf(SessionIds[1], "answer_given") :
       \E j \in EventsOf(SessionIds[2], "session_start") :
       \E k \in EventsOf(SessionIds[1], "answer_given") : i < j /\ j < k
    /\ build_user_profile_from_logs(log, SessionIds[1]).support_issue # Null
    /\ build_user_profile_from_logs(log, SessionIds[2]).support_issue = Null

\* C18: with process_answer calls running at the same time on one session,
\* the last question id of the session never moves backward in the order of
\* its flow, and the events already in the log keep their order: a call only
\* appends.
C18_ConcurrentCallsMoveForward ==
    [][LET session_id == SessionIds[1]
           before == get_last_question_id(log, session_id)
           after == get_last_question_id(log', session_id)
       IN get_flow_for_session(log', session_id) = "support_flow" =>
          /\ Rank(after) >= Rank(before)
          /\ IsPrefix(log, log')]_vars

\* the mapping table of the intents
FlowOfIntent(intent) ==
    CASE intent \in {"valutazione", "riduzione_rischio", "affidabilita_tecnica",
                     "upgrade_miglioramento"} -> "sport_flow"
      [] intent = "comparazione" -> "compare_flow"
      [] intent = "budget" -> "budget_flow"
      [] intent = "prescrizione_ottica" -> "rx_flow"
      [] intent \in {"info_lenti", "info_montatura"} -> "info_flow"
      [] intent = "post_vendita_supporto" -> "support_flow"
      [] OTHER -> "sport_flow"

\* C19: route_intent returns a flow for every string, the one the mapping
\* table gives for the ten intents and sport_flow for every other string.
C19_RouteIntentFollowsTable ==
    \A i \in 1..2 :
        obs[i].op = "route_intent" =>
            /\ obs[i].result \in Flows
            /\ obs[i].result = FlowOfIntent(obs[i].intent_primary)

\* info_montatura was routed to info_flow and then a label outside the
\* vocabulary to sport_flow
C19_Witness ==
    /\ obs[1].op = "route_intent"
    /\ obs[1].intent_primary = "info_montatura"
    /\ obs[1].result = "info_flow"
    /\ obs[2].op = "route_intent"
    /\ obs[2].intent_primary = "saluto"
    /\ obs[2].result = "sport_flow"

\* the classifier call failed, or its label is outside the vocabulary
BadClassification(response) ==
    \/ response = LLMFailure
    \/ Get(response, "intent_primary") \notin Range(ALLOWED_INTENTS)

\* C20: start_advisor_session always returns an intent_primary of the allowed
\* vocabulary; when the classifier call fails or its label is outside the
\* vocabulary it returns valutazione (with no secondary intent on failure),
\* logs the five opening events of a sport session and asks Q1.
C20_ClassifierFallback ==
    [][(log' # log /\ ret'.call.op = "start_advisor_session") =>
        LET session_id == ret'.call.session_id
            response == ret'.call.response
        IN /\ ret'.value.intent_primary \in Range(ALLOWED_INTENTS)
           /\ BadClassification(response) =>
                /\ ret'.value.intent_primary = "valutazione"
                /\ response = LLMFailure => ret'.value.intent_secondary = Null
                /\ Len(Appended) = 5
                /\ \A i \in 1..5 : Appended[i].session_id = session_id
                /\ Appended[1].event_type = "session_start"
                /\ Appended[2].event_type = "intent_detected"
                /\ Appended[2].data.intent_primary = "valutazione"
                /\ Appended[3] = Event(session_id, "flow_detected",
                                       [flow |-> "sport_flow"])
                /\ Appended[4] = AssistantMessage(session_id,
                                                  ret'.value.assistant_message)
                /\ Appended[5] = QuestionAsked(session_id, "Q1", Q1_TEXT)
                /\ ret'.value.next_question = Q1_TEXT]_vars

\* a session was started with the classifier failing, and then another one
\* with a label outside the vocabulary; both are sport sessions at Q1
C20_Witness ==
    /\ ret.call.op = "start_advisor_session"
    /\ ret.call.session_id = SessionIds[2]
    /\ ret.call.response # LLMFailure
    /\ ret.call.response.intent_primary = "saluto"
    /\ ret.value.intent_primary = "valutazione"
    /\ get_last_question_id(log, SessionIds[2]) = "Q1"
    /\ \E i \in EventsOf(SessionIds[1], "intent_detected") :
          log[i].data.reasoning = "Errore LLM"
    /\ get_flow_for_session(log, SessionIds[1]) = "sport_flow"
    /\ get_last_question_id(log, SessionIds[1]) = "Q1"

\* the values a normalizer may return, and the one it returns by default
CanonicalValues(op) ==
    CASE op = "normalize_terrain" -> {"strada", "gravel", "mtb"}
      [] op = "normalize_rx_prescription_status" -> {"presente", "mancante"}
      [] op = "normalize_rx_solution_choice" -> {"clip_in", "sport_rx", "non_so"}
      [] op = "normalize_light_condition" -> {"variabile", "stabile"}
      [] op = "normalize_support_issue" ->
            {"lente", "montatura", "viti", "nasello", "clip", "non_specificato"}
      [] op = "normalize_support_model" ->
            {"Aeroshade", "Aerowing", "Aerotrail", "Aerocomfort", "Aeroscope",
             "modello_non_specificato"}
      [] op = "normalize_support_priority" ->
            {"urgente", "ricambio", "assistenza", "non_urgente", "non_specificato"}

DefaultValue(op) ==
    CASE op = "normalize_terrain" -> "strada"
      [] op = "normalize_rx_prescription_status" -> "presente"
      [] op = "normalize_rx_solution_choice" -> "non_so"
      [] op = "normalize_light_condition" -> "variabile"
      [] op = "normalize_support_issue" -> "non_specificato"
      [] op = "normalize_support_model" -> "modello_non_specificato"
      [] op = "normalize_support_priority" -> "non_specificato"

\* inputs in which no normalizer finds a keyword
WithoutKeyword == {Null, "", "boh", "xyz 42"}

\* C21: every normalizer returns a value of its canonical set for every
\* input, the empty string and the missing value included, and its default
\* when the input holds none of its keywords.
C21_NormalizersAreTotal ==
    obs[2].op \in Normalizers =>
        /\ obs[2].result \in CanonicalValues(obs[2].op)
        /\ obs[2].args[1] \in WithoutKeyword =>
              obs[2].result = DefaultValue(obs[2].op)

\* the empty answer was normalized to presente by
\* normalize_rx_prescription_status
C21_Witness ==
    /\ obs[2].op = "normalize_rx_prescription_status"
    /\ obs[2].args = <<"">>
    /\ obs[2].result = "presente"

\* the same call as the first run was made on the same log
SecondRun ==
    /\ obs[2].op = "first_run"
    /\ log # obs[2].log
    /\ ret.call = obs[2].call

\* C22: the random choice of the phrases does not influence the state: the
\* same call on the same log appends the same events, but for the text of
\* the assistant message, and returns the same next question.
C22_PhrasingDoesNotInfluenceState ==
    SecondRun => /\ Since(obs[2].log) = obs[2].events
                 /\ ret.value.next_question = obs[2].next_question

\* process_sport_first_answer was run twice on the same log and chose two
\* different acknowledgments
C22_Witness ==
    /\ SecondRun
    /\ ret.call.op = "process_sport_first_answer"
    /\ ret.value.assistant_message # obs[2].assistant_message

\* the step is a call of load_spare_parts_db
LoadStep == ret'.call.op = "load_spare_parts_db" /\ csv' = csv

\* C23: load_spare_parts_db reads the file on the first call and on every
\* call with force_reload, and on no other call: without force_reload it
\* returns the database of the most recent read, whatever the file holds
\* now, and nothing but a read changes the cached database.
C23_ReadOnFirstUseAndReloadOnly ==
    [][/\ LoadStep =>
            /\ ret'.value = cache'
            /\ (cache = NoCache \/ ret'.call.force_reload)
                  => cache' = read_spare_parts_csv(csv)
            /\ (cache # NoCache /\ ~ret'.call.force_reload) => cache' = cache
       /\ cache' # cache =>
            /\ csv' = csv
            /\ cache' = read_spare_parts_csv(csv)
            /\ cache = NoCache \/ (LoadStep /\ ret'.call.force_reload)]_vars

\* the file changed after a read and a call without force_reload returned
\* the database read before
C23_Witness ==
    /\ ret.call.op = "load_spare_parts_db"
    /\ ~ret.call.force_reload
    /\ ret.value = read_spare_parts_csv(FullSource)
    /\ csv = RepeatedSource
    /\ ret.value # read_spare_parts_csv(csv)

\* the cells of a row as the loader takes them
RowModel(row) == Strip(OrEmpty(Get(row, "model")))
RowIssue(row) == Lower(Strip(OrEmpty(Get(row, "issue"))))
RowUrl(row) == Strip(OrEmpty(Get(row, "url")))
Complete(row) == RowModel(row) # "" /\ RowIssue(row) # "" /\ RowUrl(row) # ""

\* the rows the loader iterates over: none when the file or a column is missing
RowsOf(source) ==
    IF /\ source.exists
       /\ {"model", "issue", "url"} \subseteq
             {Lower(Strip(h)) : h \in Range(source.fieldnames)}
    THEN source.rows ELSE <<>>

\* the URLs of the complete rows with that model and issue, in row order
RECURSIVE RowUrlsOf(_, _, _)
RowUrlsOf(rows, model, issue) ==
    IF Len(rows) = 0 THEN <<>>
    ELSE IF /\ Complete(Head(rows))
            /\ RowModel(Head(rows)) = model
            /\ RowIssue(Head(rows)) = issue
         THEN <<RowUrl(Head(rows))>> \o RowUrlsOf(Tail(rows), model, issue)
         ELSE RowUrlsOf(Tail(rows), model, issue)

NoDuplicates(seq) == \A i, j \in 1..Len(seq) : seq[i] = seq[j] => i = j

\* seq lists the elements of all, each once, in order of first occurrence
FirstOccurrences(seq, all) ==
    /\ NoDuplicates(seq)
    /\ Range(seq) = Range(all)
    /\ \A i, j \in 1..Len(seq) : i < j =>
          (CHOOSE a \in 1..Len(all) : all[a] = seq[i] /\ \A b \in 1..(a-1) : all[b] # seq[i])
          < (CHOOSE a \in 1..Len(all) : all[a] = seq[j] /\ \A b \in 1..(a-1) : all[b] # seq[j])

DbMatches(db, rows) ==
    /\ NoDuplicates(Keys(db))
    /\ \A i \in 1..Len(db) :
          /\ NoDuplicates([j \in 1..Len(db[i].issues) |-> db[i].issues[j].issue])
          /\ \A j \in 1..Len(db[i].issues) :
                /\ db[i].issues[j].urls # <<>>
                /\ FirstOccurrences(db[i].issues[j].urls,
                                    RowUrlsOf(rows, db[i].model, db[i].issues[j].issue))
    /\ \A r \in 1..Len(rows) : Complete(rows[r]) =>
          \E i \in 1..Len(db) :
             /\ db[i].model = RowModel(rows[r])
             /\ \E j \in 1..Len(db[i].issues) :
                   db[i].issues[j].issue = RowIssue(rows[r])

ReadingStep == LoadStep /\ (cache = NoCache \/ ret'.call.force_reload)

\* C24: after load_spare_parts_db has read the file, every URL list of the
\* database has no duplicates, keeps the order of first occurrence in the
\* rows, and holds exactly the URLs of the complete rows with that model and
\* issue; rows with an empty model, issue or URL add nothing.
C24_UrlListsAreOrderedSets ==
    [][ReadingStep => DbMatches(cache', RowsOf(csv))]_vars

C24_Witness ==
    /\ ret.call.op = "load_spare_parts_db"
    /\ csv = RepeatedSource
    /\ ret.value = cache
    /\ Len(cache) = 1
    /\ cache[1].model = "Aerowing"
    /\ Len(cache[1].issues) = 1
    /\ cache[1].issues[1] =
          [issue |-> "nasello",
           urls |-> <<"https://shop/b", "https://shop/a", "https://shop/e">>]

\* the keys of db whose lower-cased name starts with low, in database order
PrefixKeys(db, low) ==
    SelectSeq(Keys(db), LAMBDA k : StartsWith(Lower(Strip(k)), low))

\* the key the hint is looked up with
HintedIssue(issue) ==
    Or(canonicalize_issue(Lower(Strip(issue))), Lower(Strip(issue)))

\* result is one of the shortest elements of keys
ShortestOf(result, keys) ==
    /\ result \in Range(keys)
    /\ \A k \in Range(keys) : Len(result) <= Len(k)

\* what the order of preference gives for an input without surrounding blanks
Preferred(result, input, db, issue) ==
    LET equal == SelectSeq(Keys(db), LAMBDA k : Lower(Strip(k)) = Lower(input))
        prefix == PrefixKeys(db, Lower(input))
        hinted == IF issue = Null \/ issue = "" THEN <<>>
                  ELSE SelectSeq(prefix,
                          LAMBDA k : UrlsOf(IssuesOf(db, k), HintedIssue(issue)) # Null)
    IN IF input = "" \/ Len(db) = 0 THEN result = Null
       ELSE IF InDb(db, input) THEN result = input
       ELSE IF Len(equal) > 0 THEN result = equal[1]
       ELSE IF Len(prefix) = 0 THEN result = Null
       ELSE IF Len(hinted) > 0 THEN ShortestOf(result, hinted)
       ELSE ShortestOf(result, prefix)

\* C25: resolve_model_key returns a key of the database or null, preferring
\* the input itself if it is a key, else the first key equal to it ignoring
\* case, else the shortest prefix candidate that has the hinted issue, else
\* the shortest prefix candidate; it returns null exactly when the input or
\* the database is empty or no key starts with the input.
C25_ResolveModelKeyPreference ==
    obs[2].op = "resolve_model_key" =>
        /\ obs[2].result = Null \/ InDb(obs[2].args[2], obs[2].result)
        /\ Preferred(obs[2].result,
                     IF obs[2].args[1] = Null THEN "" ELSE Strip(obs[2].args[1]),
                     obs[2].args[2], obs[2].args[3])

\* the same, for the inputs that are not made of blanks only
C25_ExceptBlankInput ==
    (obs[2].op = "resolve_model_key" /\ obs[2].args[1] # "  ") =>
        C25_ResolveModelKeyPreference

\* the first key, in the order of the map, that contains the earliest of the
\* needles that some key contains; Null when no key contains a needle
FirstMatch(keys, needles) ==
    LET found == {n \in 1..Len(needles) : \E i \in 1..Len(keys) : Contains(keys[i], needles[n])}
    IN IF found = {} THEN Null
       ELSE LET n == CHOOSE a \in found : \A b \in found : a <= b
            IN keys[CHOOSE i \in 1..Len(keys) :
                      /\ Contains(keys[i], needles[n])
                      /\ \A j \in 1..(i-1) : ~Contains(keys[j], needles[n])]

IsMacro(ui) == ui \in {"lente", "montatura", "viti", "nasello", "clip"}

Tiers(result, ui, keys) ==
    IF Len(keys) = 0 \/ ui = "" THEN result = Null
    ELSE IF ui \in Range(keys) THEN result = ui
    ELSE IF IsMacro(ui) /\ FirstMatch(keys, IssuePatterns[ui]) # Null
         THEN result = FirstMatch(keys, IssuePatterns[ui])
    ELSE IF FirstMatch(keys, <<ui>>) # Null THEN result = FirstMatch(keys, <<ui>>)
    ELSE result = FirstMatch(keys, Parts(ui))

TellsNoExactMatch(message) == Contains(message, "Mi manca il link preciso")

AsksForClarification(message) ==
    \/ Contains(message, "Se mi scrivi la variante")
    \/ Contains(message, "Se mi dai la variante")
    \/ Contains(message, "Se mi confermi il modello")

NoLinkResolved ==
    /\ ret.call.op = "process_support_third_answer"
    /\ ret.value.recommendation.direct_links = <<>>

\* C27: at the terminal support step, whenever no link is resolved for the
\* model and issue of the session, the response tells the user that no exact
\* match was found and asks for clarification, whatever the priority.
C27_NoLinkIsToldAndClarified ==
    NoLinkResolved =>
        /\ TellsNoExactMatch(ret.value.assistant_message)
        /\ AsksForClarification(ret.value.assistant_message)

\* the same for the priority ricambio alone
C27_ForRicambio ==
    (NoLinkResolved /\ ret.value.recommendation.priority = "ricambio") =>
        C27_NoLinkIsToldAndClarified

\* the log with the lines that are no events removed
WithoutCorruptLines(l) == SelectSeq(l, IsDict)

\* what a reader returns when there are no events
NoEvents(op) ==
    CASE op = "get_flow_for_session" -> "sport_flow"
      [] op = "get_last_question_id" -> Null
      [] op = "load_session_events" -> <<>>

ReadFrom(op, l, session_id) ==
    CASE op = "get_flow_for_session" -> get_flow_for_session(l, session_id)
      [] op = "get_last_question_id" -> get_last_question_id(l, session_id)
      [] op = "load_session_events" -> load_session_events(l, session_id)

\* C28: when the log does not exist every reader returns what it returns
\* for a session with no events (sport_flow, null, the empty list), and a
\* line that is not a structured event is skipped: every reader returns what
\* it returns on the same log with those lines removed.
C28_ReadersTolerateAbsenceAndCorruption ==
    obs[2].op \in LogReaders =>
        /\ obs[2].log = <<>> => obs[2].result = NoEvents(obs[2].op)
        /\ obs[2].result =
              ReadFrom(obs[2].op, WithoutCorruptLines(obs[2].log), obs[2].session_id)

\* the same for the logs whose corrupt lines are all records cut short
C28_ForTruncatedLines ==
    (obs[2].op \in LogReaders /\ \A i \in 1..Len(obs[2].log) : obs[2].log[i] # ScalarLine) =>
        C28_ReadersTolerateAbsenceAndCorruption

\* C29: the sport score is in 0..11 (+3 terrain, +3 light, +4 sport
\* priority, +1 for a sport product), the RX score is in 0..15, and the RX
\* score is 0 whenever the entry is not rx_compatible, whatever its other
\* fields.
C29_ScoresAreBoundedAndGated ==
    obs[2].op = "score" =>
        IF obs[2].profile.flow_type = "sport_flow"
        THEN /\ obs[2].result \in 0..11
             /\ obs[2].result =
                   3 * Cardinality({obs[2].profile.terrain} \cap obs[2].entry.terrain)
                   + 3 * Cardinality({obs[2].profile.light_condition} \cap obs[2].entry.light)
                   + 4 * Cardinality({obs[2].profile.sport_priority}
                                        \cap obs[2].entry.sport_priorities)
                   + Cardinality({obs[2].entry.product_type} \cap {"sport"})
        ELSE /\ obs[2].result \in 0..15
             /\ ~obs[2].entry.rx_compatible => obs[2].result = 0

\* an RX profile scored against an rx product that has the chosen mode, the
\* priority, the terrain and the light but is not rx_compatible
C29_Witness ==
    /\ obs[2].op = "score"
    /\ obs[2].profile.flow_type = "rx_flow"
    /\ obs[2].profile.rx_solution_choice = "clip_in"
    /\ "clip_in" \in obs[2].entry.rx_modes
    /\ obs[2].profile.rx_priority \in obs[2].entry.rx_priorities
    /\ obs[2].profile.terrain \in obs[2].entry.terrain
    /\ obs[2].profile.light_condition \in obs[2].entry.light
    /\ obs[2].entry.product_type = "rx"
    /\ ~obs[2].entry.rx_compatible
    /\ obs[2].result = 0

\* the entries of the ranking that score above 0
ScoringEntries(scored) == {i \in 1..Len(scored) : scored[i].score > 0}

\* position of an entry in the catalog
PositionIn(catalog, entry) == CHOOSE i \in 1..Len(catalog) : catalog[i] = entry

ServiceFails(query, env) ==
    /\ Strip(query) # ""
    /\ \/ env.embedding = "fails"
       \/ env.first = "fails"
       \/ /\ env.first = "lifestyle" /\ env.second = "fails"
          /\ detect_query_flags(Strip(query)).is_gravel
          /\ detect_query_flags(Strip(query)).is_performance

\* C31: when the embedding call or the vector search fails, search_products
\* raises nothing and returns a result with an empty product list, and
\* build_product_advice returns its fallback message.
C31_SearchFailureIsAnEmptyResult ==
    (obs[2].op \in {"search_products", "build_product_advice"}
     /\ ServiceFails(obs[2].query, obs[2].env)) =>
        /\ obs[2].result.raised = Null
        /\ obs[2].result.products = <<>>
        /\ obs[2].op = "build_product_advice" =>
              obs[2].result.bot_message = FallbackMessage

StartStep == ret'.call.op = "start_advisor_session" /\ log' # log

\* C32: start_advisor_session appends exactly five events for a session id
\* that is new to the log, in the order session_start, intent_detected,
\* flow_detected, assistant_message, question_asked; the first question id
\* is Q1_RX for rx_flow, SUP_Q1 for support_flow and Q1 for every other
\* flow; the question text returned is the text logged.
C32_StartAppendsFiveEvents ==
    [][StartStep =>
         /\ IsPrefix(log, log')
         /\ Len(Appended) = 5
         /\ [i \in 1..5 |-> Appended[i].event_type] =
               <<"session_start", "intent_detected", "flow_detected",
                 "assistant_message", "question_asked">>
         /\ \A i \in 1..5 : Appended[i].session_id = ret'.value.session_id
         /\ \A k \in 1..Len(log) : log[k].session_id # ret'.value.session_id
         /\ Appended[5].data.question_id =
               (CASE Appended[3].data.flow = "rx_flow" -> "Q1_RX"
                  [] Appended[3].data.flow = "support_flow" -> "SUP_Q1"
                  [] Appended[3].data.flow \in
                        {"sport_flow", "compare_flow", "budget_flow", "info_flow"} -> "Q1")
         /\ Appended[5].data.text = ret'.value.next_question]_vars

\* a second session was started with the support flow after one with
\* another flow
C32_Witness ==
    /\ ret.call.op = "start_advisor_session"
    /\ ret.value.session_id = SessionIds[2]
    /\ get_flow_for_session(log, SessionIds[2]) = "support_flow"
    /\ get_last_question_id(log, SessionIds[2]) = "SUP_Q1"
    /\ get_flow_for_session(log, SessionIds[1]) = "budget_flow"
    /\ Len(log) >= 10

\* the variants listed, one per line, in a message of the assistant
ListedIn(text) ==
    {k \in Range(Keys(cache)) : Contains(text \o "\n", "- " \o k \o "\n")}

\* the messages that followed the session's SUP_Q2 answers: the last one is
\* the message that presented the variants when SUP_Q2_VARIANT was entered
EntryMessages(session_id) ==
    {i \in 2..Len(log) :
        /\ log[i].session_id = session_id
        /\ log[i].event_type = "assistant_message"
        /\ log[i - 1].event_type = "answer_given"
        /\ log[i - 1].data.question_id = "SUP_Q2"}

\* the step answers SUP_Q2_VARIANT with no key of the database and the
\* database is the one that was loaded before
RepromptStep(session_id) ==
    /\ AnswersVariant(session_id)
    /\ cache' = cache
    /\ get_last_question_id(log', session_id) = "SUP_Q2_VARIANT"

\* C33: on a mismatch in state SUP_Q2_VARIANT the re-prompt lists the same
\* set of variants that was presented when the session entered
\* SUP_Q2_VARIANT, whatever SUP_Q2 answer led there, as long as the
\* spare-parts database has not been reloaded
C33_RepromptListsPresentedVariants ==
    [][\A session_id \in AllSessions :
          RepromptStep(session_id) =>
            ListedIn(ret'.value.assistant_message) =
               ListedIn(log[Last(EntryMessages(session_id))].data.text)]_vars

\* the SUP_Q2 answer that led the session to SUP_Q2_VARIANT
EntryAnswer(session_id) ==
    log[Last(EntryMessages(session_id)) - 1].data.raw_answer

\* the same holds of the SUP_Q2 answers without a dash
C33_ForAnswersWithoutDash ==
    [][\A session_id \in AllSessions :
          (RepromptStep(session_id) /\ ~Contains(EntryAnswer(session_id), "-")) =>
            ListedIn(ret'.value.assistant_message) =
               ListedIn(log[Last(EntryMessages(session_id))].data.text)]_vars

\* the unknown value of the session's most recent support_variant_unknown
\* event, false when there is none
LastUnknown(session_id) ==
    LET events == EventsOf(session_id, "support_variant_unknown")
    IN IF events = {} THEN FALSE ELSE log[Last(events)].data.unknown

\* C34: after process_support_second_answer has handled a SUP_Q2 answer, the
\* support_variant_unknown flag of the profile rebuilt from the log equals
\* the unknown value of the session's most recent support_variant_unknown
\* event, false when the session has none.
C34_ProfileAgreesWithHandler ==
    \A session_id \in AllSessions :
        (/\ ret.call.op = "process_support_second_answer"
         /\ ret.call.session_id = session_id)
        => build_user_profile_from_logs(log, session_id).support_variant_unknown
              = LastUnknown(session_id)

\* the two agree on the SUP_Q2 answers of SpecSupport that the handler does
\* not treat as unknown
C34_ForKnownModels ==
    \A session_id \in AllSessions :
        (/\ ret.call.op = "process_support_second_answer"
         /\ ret.call.session_id = session_id
         /\ ~IDontKnow(ret.call.answer))
        => build_user_profile_from_logs(log, session_id).support_variant_unknown
              = LastUnknown(session_id)

\* SUP_Q3 has been asked in the session
AskedSupQ3(session_id) ==
    \E i \in EventsOf(session_id, "question_asked") :
        log[i].data.question_id = "SUP_Q3"

\* C35: the support terminal state is absorbing: once SUP_Q3 has been asked,
\* every later process_answer call of the session is handled as an answer to
\* SUP_Q3, returns a recommendation and no next question, appends one
\* answer_given for SUP_Q3 and one support_links_resolved event and no
\* question_asked event, and the last question id stays SUP_Q3.
C35_SupportTerminalIsAbsorbing ==
    [][\A session_id \in AllSessions :
          (AnswerStep(session_id) /\ AskedSupQ3(session_id)) =>
            /\ ret'.call.op = "process_support_third_answer"
            /\ ReturnsRecommendation(ret')
            /\ ~ReturnsQuestion(ret')
            /\ IsPrefix(log, log')
            /\ [i \in 1..Len(Appended) |-> Appended[i].event_type]
                  = <<"answer_given", "support_links_resolved">>
            /\ \A i \in 1..Len(Appended) : Appended[i].session_id = session_id
            /\ Appended[1].data.question_id = "SUP_Q3"
            /\ Appended[1].data.raw_answer = ret'.call.answer
            /\ get_last_question_id(log', session_id) = "SUP_Q3"]_vars

\* the session answered SUP_Q3 twice: two recommendations were resolved
\* after the one SUP_Q3 question
C35_Witness ==
    /\ ret.call.op = "process_support_third_answer"
    /\ Cardinality(EventsOf(SessionIds[1], "support_links_resolved")) = 2
    /\ Cardinality({i \in EventsOf(SessionIds[1], "question_asked") :
                       log[i].data.question_id = "SUP_Q3"}) = 1
    /\ get_last_question_id(log, SessionIds[1]) = "SUP_Q3"

\* the question id of the session's last question_asked event before
\* position i of the log, null without one
AskedBefore(session_id, i) ==
    LET asked == {j \in EventsOf(session_id, "question_asked") : j < i}
    IN IF asked = {} THEN Null ELSE log[Last(asked)].data.question_id

\* the answers to the question asked at position j that the session logged
\* before its next question
AnswersAfter(session_id, j) ==
    {i \in EventsOf(session_id, "answer_given") :
        /\ i > j
        /\ log[i].data.question_id = log[j].data.question_id
        /\ \A k \in EventsOf(session_id, "question_asked") : ~(j < k /\ k < i)}

\* every answer_given follows the question_asked of its id, the SUP_Q2 answer
\* of a variant choice follows SUP_Q2_VARIANT
AnswersFollowTheirQuestion(session_id) ==
    \A i \in EventsOf(session_id, "answer_given") :
        \/ AskedBefore(session_id, i) = log[i].data.question_id
        \/ /\ log[i].data.question_id = "SUP_Q2"
           /\ AskedBefore(session_id, i) = "SUP_Q2_VARIANT"
           /\ log[i].data.raw_answer = log[i].data.normalized

\* C36: in every session driven by start_advisor_session and sequential
\* process_answer calls, each answer_given for a question id follows the
\* question_asked of that id (the SUP_Q2 answer appended on a variant choice
\* follows the question_asked of SUP_Q2_VARIANT), and each question_asked is
\* followed by at most one answer_given for its id before the next
\* question_asked.
C36_OneAnswerPerQuestion ==
    \A session_id \in AllSessions :
        /\ AnswersFollowTheirQuestion(session_id)
        /\ \A j \in EventsOf(session_id, "question_asked") :
              Cardinality(AnswersAfter(session_id, j)) <= 1

\* the first half alone: every answer follows its question
C36_AnswersFollowTheirQuestion ==
    \A session_id \in AllSessions : AnswersFollowTheirQuestion(session_id)

\* the model is a key of the database and has the issue
HasLinks(db, model, issue) ==
    /\ InDb(db, model)
    /\ \E j \in 1..Len(IssuesOf(db, model)) : IssuesOf(db, model)[j].issue = issue

\* C37: at the terminal support step, direct_links is the URL list the
\* database stores for the resolved model under the lower-cased canonical
\* support issue of the profile when the resolved model is a key that has
\* that issue, and is empty otherwise, also for an unknown model; links_count
\* of the support_links_resolved event is the length of direct_links.
C37_DirectLinksAreTheDatabaseList ==
    ret.call.op = "process_support_third_answer" =>
        LET rec == ret.value.recommendation
            profile == build_user_profile_from_logs(log, ret.call.session_id)
            issue == Lower(Or(profile.support_issue, "problema"))
            resolved == log[Len(log)]
        IN /\ rec.direct_links =
                 (IF HasLinks(cache, rec.resolved_model, issue)
                  THEN UrlsOf(IssuesOf(cache, rec.resolved_model), issue)
                  ELSE <<>>)
           /\ profile.support_model = "modello_non_specificato"
                 => rec.direct_links = <<>>
           /\ resolved.event_type = "support_links_resolved"
           /\ resolved.session_id = ret.call.session_id
           /\ resolved.data.model_resolved = rec.resolved_model
           /\ resolved.data.issue_key = issue
           /\ resolved.data.links_count = Len(rec.direct_links)

\* the nose pad of an Aerowing: the one link of the database is returned
C37_Witness ==
    /\ ret.call.op = "process_support_third_answer"
    /\ ret.value.recommendation.resolved_model = "Aerowing"
    /\ ret.value.recommendation.issue_key = "nasello"
    /\ ret.value.recommendation.direct_links = <<"https://shop/wing-nose">>
    /\ log[Len(log)].data.links_count = 1

\* the flow_detected events a step appended
AppendedFlows ==
    {i \in 1..Len(Appended) : Appended[i].event_type = "flow_detected"}

\* C38: the flow of a session is fixed at start: start_advisor_session
\* appends exactly one flow_detected event, for a session that had none, no
\* process_answer call appends another, and get_flow_for_session returns the
\* same flow for every session after every process_answer call.
C38_FlowIsFixedAtStart ==
    [][/\ StartStep =>
            /\ Cardinality(AppendedFlows) = 1
            /\ \A i \in AppendedFlows :
                  Appended[i].session_id = ret'.value.session_id
            /\ EventsOf(ret'.value.session_id, "flow_detected") = {}
       /\ \A session_id \in AllSessions :
            AnswerStep(session_id) =>
               /\ AppendedFlows = {}
               /\ \A other \in AllSessions :
                     get_flow_for_session(log', other)
                        = get_flow_for_session(log, other)]_vars

\* an RX session that was sent back to its first question twice and is
\* still an RX session with its one flow_detected event
C38_Witness ==
    /\ ret.call.op = "process_answer"
    /\ ret.call.session_id = SessionIds[1]
    /\ get_flow_for_session(log, SessionIds[1]) = "rx_flow"
    /\ Cardinality(EventsOf(SessionIds[1], "question_asked")) = 3
    /\ Cardinality(EventsOf(SessionIds[1], "flow_detected")) = 1

\* the databases load_spare_parts_db builds from the files of SpecReload
CompleteDbs == {read_spare_parts_csv(source) : source \in ReloadSources}

\* thread t returns from load_spare_parts_db in this step
ReturnsDb(t) ==
    /\ inflight[t] # Idle
    /\ inflight'[t] = Idle

\* another thread is inside a call with force_reload=True
Rebuilding(t) ==
    \E u \in Threads \ {t} : inflight[u] # Idle /\ inflight[u].force_reload

\* C39: a concurrent reader of the spare-parts cache never observes a
\* partially built database: while one load_spare_parts_db call with
\* force_reload=True is rebuilding, every other caller obtains the complete
\* previous database or the complete new one.
C39_ReadersGetACompleteDatabase ==
    [][\A t \in Threads :
          (ReturnsDb(t) /\ Rebuilding(t)) =>
             /\ ret'.value \in CompleteDbs
             /\ ret'.value \in {cache, cache'}]_vars

\* what holds: no caller obtains a database that is half built, and the
\* cache never holds one; a caller obtains a complete database or None
C39_NoPartialDatabase ==
    [][/\ cache' \in CompleteDbs \cup {NoCache, NoneCache}
       /\ \A t \in Threads :
             ReturnsDb(t) =>
                /\ ret'.value \in CompleteDbs \cup {NoneCache}
                /\ ret'.value \in {cache, cache'}]_vars

\* chunk_text is in its loop / has returned
InChunkLoop == ret.call.op = "chunk_text" /\ ret.value.pc = "loop"

\* chunk_text has returned chunks of at most max_chars characters, and its
\* windows, which start at 0 and each start no later than the one before
\* ended, reach the end of the text
ChunksReturned ==
    /\ ret.call.op = "chunk_text"
    /\ ret.value.pc = "done"
    /\ \A k \in 1..Len(ret.value.chunks) :
          Len(ret.value.chunks[k]) <= ret.call.max_chars
    /\ ret.value.end = Len(ret.call.text)

\* C40: chunk_text terminates for every text and every
\* 0 <= overlap < max_chars, returning finitely many chunks of at most
\* max_chars characters that together cover the whole text.
C40_ChunkTextTerminates == InChunkLoop ~> ChunksReturned

\* what holds: with overlap = 0 the loop ends and the chunks cover the text
C40_WithoutOverlap ==
    (InChunkLoop /\ ret.call.overlap = 0) ~> ChunksReturned

====
